---- MODULE Spec2Model ----
(***************************************************************************)
(* State machine of the moltbook TUI: the App struct (src/src/app.rs), the *)
(* dispatch loop and key handler (src/src/main.rs) and the parts of the    *)
(* renderer that write to or index the App (src/src/ui).                   *)
(*                                                                         *)
(* A Post is modelled by its id, a leaderboard / recent agent by its name, *)
(* a top pairing by its bot_name, a submolt by the record                  *)
(* [name, subscriber_count, featured], a Comment by [id, replies].         *)
(* Option<T> is the string "None" or the value.                            *)
(***************************************************************************)
EXTENDS Integers, Sequences, FiniteSets, Bags, TLC

VARIABLES
    app,        \* the App struct owned by the dispatch loop
    inflight,   \* bag of fetch tasks spawned and not yet completed
    panicked,   \* TRUE once a handler or the renderer indexed out of bounds
    now,        \* wall clock in seconds (std::time::Instant::now())
    call,       \* method-level specifications: the latest method call
    ret,        \* method-level specifications: what that call returned
    channel,    \* the mpsc channel: events enqueued and not yet received
    pc,         \* where main() stands: a setup step, "draw", "recv", "done"
                \* (the loop is left), "restore" and the restoration steps,
                \* or an exit
    log,        \* history of the main loop: its redraws and applied events
    terminal,   \* the terminal modes main() switches
    debug_log,  \* App::debug_log, the entries without their timestamps; it
                \* is stepped by the main loop taken step by step
    tasks       \* the input, tick and spinner tasks main() spawned and the
                \* value of its shutdown channel

vars ==
    <<app, inflight, panicked, now, call, ret, channel, pc, log, terminal,
      debug_log, tasks>>

\* the loop is not stepped: events are applied as they arrive
loop_vars == <<channel, pc, log, terminal, debug_log, tasks>>

None == "None"

\* the terminal as main() finds it, and after enable_raw_mode and
\* execute!(EnterAlternateScreen, EnableMouseCapture)
TerminalCooked ==
    [raw_mode |-> FALSE, alternate_screen |-> FALSE, mouse_capture |-> FALSE]

TerminalEntered ==
    [raw_mode |-> TRUE, alternate_screen |-> TRUE, mouse_capture |-> TRUE]

\* the tasks before main() spawns them, and while the loop runs
TasksNone == [shutdown |-> FALSE, handles |-> {}]

TasksSpawned ==
    [shutdown |-> FALSE,
     handles |-> {"input_handle", "tick_handle", "spinner_handle"}]

\* ------------------------------------------------------------------ bounds
\* Page size of the feed (25 in src/src/main.rs:82), scaled so that a full
\* page is a payload the gateway can return within the model.
POSTS_LIMIT == 2
\* Longest list screen payload (leaderboard, top pairings, recent agents,
\* agent posts).
MaxList == 2
\* Largest page number reached by paging forward.
MaxPage == 1
\* Most fetch tasks outstanding at once.
MaxInflight == 2
\* Grid rows that fit in the terminal (grid_area.height / row_height).
VisibleRows == 1
\* Largest submolt grid explored by the cursor specification.
MaxGrid == 9
\* Longest submolt listing the gateway returns to the sorting handler.
MaxSubmolts == 3
\* Capacity of the event channel (100 in src/src/main.rs:150), scaled.
MaxChannel == 2
\* Most events enqueued in one run of the stepped main loop.
MaxEvents == 4
\* Latest reading of the wall clock, in seconds.
MaxClock == 3
\* The configured auto-refresh interval in seconds (config.refresh_interval_secs,
\* 10 by default in src/src/main.rs:113), scaled to the clock.
ShortRefresh == 2
\* Most comments in a generated comment forest.
MaxComments == 3

\* ------------------------------------------------------------- value sets
Screens == {"Setup", "Feed", "PostDetail", "Stats", "Leaderboard",
            "TopPairings", "RecentAgents", "Submolts", "Settings",
            "AgentProfile"}
SortOrders == {"New", "Top", "Discussed", "Random"}
TimeFilters == {"Hour", "Day", "Week", "Month", "Year", "All"}
PostIds == {"A", "B", "C"}
AgentNames == <<"a1", "a2", "a3">>
CommentIds == <<"c1", "c2", "c3", "c4">>

Min(x, y) == IF x < y THEN x ELSE y
Max(x, y) == IF x > y THEN x ELSE y
Range(s) == {s[i] : i \in 1..Len(s)}

\* Vec::get(i) / slice indexing with a 0-based index
Get(s, i) == IF i < Len(s) THEN s[i + 1] ELSE None

\* ------------------------------------------------------------ App::new()
App_new ==
    [ screen |-> "Feed",
      posts |-> <<>>,
      selected_index |-> 0,
      sort_order |-> "New",
      time_filter |-> "Day",
      current_post |-> None,
      comments |-> <<>>,
      comment_scroll |-> 0,
      selected_comment_index |-> 0,
      collapsed_comments |-> {},
      seen_post_ids |-> {},
      new_post_ids |-> {},
      last_refresh |-> <<>>,      \* Option<Instant>: <<>> or <<t>>
      is_loading |-> FALSE,
      is_background_loading |-> FALSE,
      error_message |-> None,
      show_technical_error |-> FALSE,
      should_quit |-> FALSE,
      show_help |-> FALSE,
      current_page |-> 0,
      has_more_posts |-> FALSE,
      spinner_frame |-> 0,
      refresh_interval_secs |-> 0,
      stats |-> None,
      leaderboard |-> <<>>,
      top_pairings |-> <<>>,
      recent_agents |-> <<>>,
      submolts |-> <<>>,
      leaderboard_selected |-> 0,
      top_pairings_selected |-> 0,
      recent_selected |-> 0,
      submolts_selected |-> 0,
      submolts_scroll_row |-> 0,
      debug_mode |-> FALSE,
      select_bottom_on_load |-> FALSE,
      settings_selected |-> 0,
      row_display |-> "Normal",
      show_submolt_detail |-> FALSE,
      current_submolt |-> None,
      agent_profile |-> None,
      agent_posts |-> <<>>,
      agent_posts_selected |-> 0,
      show_agent_preview |-> FALSE,
      preview_agent_name |-> None,
      previous_screen |-> None,
      is_preview_loading |-> FALSE,
      show_about |-> FALSE ]

\* ------------------------------------------------- App transition methods
toggle_help(a) == [a EXCEPT !.show_help = ~a.show_help]

toggle_about(a) == [a EXCEPT !.show_about = ~a.show_about]

toggle_debug(a) == [a EXCEPT !.debug_mode = ~a.debug_mode]

\* defect seeded for C22: paging forward does not look at has_more_posts
next_page_unguarded(a) ==
    [a EXCEPT !.current_page = a.current_page + 1, !.selected_index = 0]

next_page(a) ==
    IF a.has_more_posts
    THEN [a EXCEPT !.current_page = a.current_page + 1, !.selected_index = 0]
    ELSE a

\* defect seeded for C7: paging back does not raise select_bottom_on_load
prev_page_without_flag(a) ==
    IF a.current_page > 0
    THEN [a EXCEPT !.current_page = a.current_page - 1]
    ELSE a

prev_page(a) ==
    IF a.current_page > 0
    THEN [a EXCEPT !.current_page = a.current_page - 1,
                   !.select_bottom_on_load = TRUE]
    ELSE a

advance_spinner(a) == [a EXCEPT !.spinner_frame = (a.spinner_frame + 1) % 10]

\* get_visible_comment_ids: collect_visible pushes a comment, then recurses
\* into its replies unless the comment is collapsed
RECURSIVE collect_visible(_, _, _)
collect_visible(comments, collapsed, result) ==
    IF comments = <<>> THEN result
    ELSE LET comment == Head(comments)
             pushed == Append(result, comment.id)
             after == IF comment.id \notin collapsed
                      THEN collect_visible(comment.replies, collapsed, pushed)
                      ELSE pushed
         IN collect_visible(Tail(comments), collapsed, after)

\* defect seeded for C3: the traversal enters collapsed comments too
get_visible_comment_ids_entering_collapsed(a) ==
    collect_visible(a.comments, {}, <<>>)

get_visible_comment_ids(a) ==
    collect_visible(a.comments, a.collapsed_comments, <<>>)

get_selected_comment_id(a) ==
    Get(get_visible_comment_ids(a), a.selected_comment_index)

\* defect seeded for C33: a toggle only ever collapses
toggle_comment_collapse_once(a, comment_id) ==
    [a EXCEPT !.collapsed_comments = @ \cup {comment_id}]

toggle_comment_collapse(a, comment_id) ==
    IF comment_id \in a.collapsed_comments
    THEN [a EXCEPT !.collapsed_comments = @ \ {comment_id}]
    ELSE [a EXCEPT !.collapsed_comments = @ \cup {comment_id}]

\* defect seeded for C8: the Feed cursor advances without looking at the
\* number of posts
select_next_unclamped(a) ==
    CASE a.screen = "Feed" -> [a EXCEPT !.selected_index = @ + 1]
      [] a.screen = "PostDetail" ->
           [a EXCEPT !.selected_comment_index = @ + 1]
      [] OTHER -> a

select_next(a) ==
    CASE a.screen = "Feed" ->
           IF a.posts # <<>> /\ a.selected_index < Len(a.posts) - 1
           THEN [a EXCEPT !.selected_index = @ + 1] ELSE a
      [] a.screen = "PostDetail" ->
           LET visible_count == Len(get_visible_comment_ids(a))
           IN IF visible_count > 0
                 /\ a.selected_comment_index < visible_count - 1
              THEN [a EXCEPT !.selected_comment_index = @ + 1] ELSE a
      [] a.screen \in {"Setup", "Stats"} -> a
      [] a.screen = "Leaderboard" ->
           IF a.leaderboard # <<>>
              /\ a.leaderboard_selected < Len(a.leaderboard) - 1
           THEN [a EXCEPT !.leaderboard_selected = @ + 1] ELSE a
      [] a.screen = "TopPairings" ->
           IF a.top_pairings # <<>>
              /\ a.top_pairings_selected < Len(a.top_pairings) - 1
           THEN [a EXCEPT !.top_pairings_selected = @ + 1] ELSE a
      [] a.screen = "RecentAgents" ->
           IF a.recent_agents # <<>>
              /\ a.recent_selected < Len(a.recent_agents) - 1
           THEN [a EXCEPT !.recent_selected = @ + 1] ELSE a
      [] a.screen = "Submolts" ->
           IF a.submolts # <<>> /\ a.submolts_selected + 4 < Len(a.submolts)
           THEN [a EXCEPT !.submolts_selected = @ + 4] ELSE a
      [] a.screen = "Settings" ->
           IF a.settings_selected < 1
           THEN [a EXCEPT !.settings_selected = @ + 1] ELSE a
      [] a.screen = "AgentProfile" ->
           IF a.agent_posts # <<>>
              /\ a.agent_posts_selected < Len(a.agent_posts) - 1
           THEN [a EXCEPT !.agent_posts_selected = @ + 1] ELSE a

select_previous(a) ==
    CASE a.screen = "Feed" ->
           IF a.selected_index > 0
           THEN [a EXCEPT !.selected_index = @ - 1] ELSE a
      [] a.screen = "PostDetail" ->
           IF a.selected_comment_index > 0
           THEN [a EXCEPT !.selected_comment_index = @ - 1] ELSE a
      [] a.screen \in {"Setup", "Stats"} -> a
      [] a.screen = "Leaderboard" ->
           IF a.leaderboard_selected > 0
           THEN [a EXCEPT !.leaderboard_selected = @ - 1] ELSE a
      [] a.screen = "TopPairings" ->
           IF a.top_pairings_selected > 0
           THEN [a EXCEPT !.top_pairings_selected = @ - 1] ELSE a
      [] a.screen = "RecentAgents" ->
           IF a.recent_selected > 0
           THEN [a EXCEPT !.recent_selected = @ - 1] ELSE a
      [] a.screen = "Submolts" ->
           IF a.submolts_selected >= 4
           THEN [a EXCEPT !.submolts_selected = @ - 4] ELSE a
      [] a.screen = "Settings" ->
           IF a.settings_selected > 0
           THEN [a EXCEPT !.settings_selected = @ - 1] ELSE a
      [] a.screen = "AgentProfile" ->
           IF a.agent_posts_selected > 0
           THEN [a EXCEPT !.agent_posts_selected = @ - 1] ELSE a

select_left(a) ==
    IF a.screen = "Submolts" /\ a.submolts_selected % 4 > 0
    THEN [a EXCEPT !.submolts_selected = @ - 1] ELSE a

\* defect seeded for C9: select_right steps over the end of a grid row
select_right_across_rows(a) ==
    IF a.screen = "Submolts" /\ a.submolts_selected + 1 < Len(a.submolts)
    THEN [a EXCEPT !.submolts_selected = @ + 1] ELSE a

select_right(a) ==
    IF a.screen = "Submolts"
       /\ a.submolts_selected % 4 < 3
       /\ a.submolts_selected + 1 < Len(a.submolts)
    THEN [a EXCEPT !.submolts_selected = @ + 1] ELSE a

\* defect seeded for C24: the filter is sent whatever the sort order
time_filter_for_api_always(a) == a.time_filter

time_filter_for_api(a) ==
    IF a.sort_order = "New" THEN None ELSE a.time_filter

\* defect seeded for C10: the sort order changes without the Hour -> Day rule
set_sort_order_keeping_hour(a, order) == [a EXCEPT !.sort_order = order]

set_sort_order(a, order) ==
    [a EXCEPT !.sort_order = order,
              !.time_filter = IF order # "New" /\ a.time_filter = "Hour"
                              THEN "Day" ELSE @]

\* defect seeded for C23: the cycle wraps from All to Day
cycle_time_filter_skipping_hour(a) ==
    [a EXCEPT !.time_filter =
        CASE @ = "Hour" -> "Day"
          [] @ = "Day" -> "Week"
          [] @ = "Week" -> "Month"
          [] @ = "Month" -> "Year"
          [] @ = "Year" -> "All"
          [] @ = "All" -> "Day"]

cycle_time_filter(a) ==
    [a EXCEPT !.time_filter =
        CASE @ = "Hour" -> "Day"
          [] @ = "Day" -> "Week"
          [] @ = "Week" -> "Month"
          [] @ = "Month" -> "Year"
          [] @ = "Year" -> "All"
          [] @ = "All" -> "Hour"]

cycle_time_filter_reverse(a) ==
    [a EXCEPT !.time_filter =
        CASE @ = "Hour" -> "All"
          [] @ = "Day" -> "Hour"
          [] @ = "Week" -> "Day"
          [] @ = "Month" -> "Week"
          [] @ = "Year" -> "Month"
          [] @ = "All" -> "Year"]

selected_post(a) == Get(a.posts, a.selected_index)

\* defect seeded for C34: an opened post stays in new_post_ids
open_selected_post_keeping_new(a) ==
    LET post == Get(a.posts, a.selected_index)
    IN IF post # None
       THEN [a EXCEPT !.seen_post_ids = @ \cup {post},
                      !.current_post = post,
                      !.comments = <<>>,
                      !.comment_scroll = 0,
                      !.screen = "PostDetail"]
       ELSE a

open_selected_post(a) ==
    LET post == Get(a.posts, a.selected_index)
    IN IF post # None
       THEN [a EXCEPT !.new_post_ids = @ \ {post},
                      !.seen_post_ids = @ \cup {post},
                      !.current_post = post,
                      !.comments = <<>>,
                      !.comment_scroll = 0,
                      !.screen = "PostDetail"]
       ELSE a

\* defect seeded for C5: PostDetail always returns to Feed and keeps the
\* collapsed set
go_back_to_feed(a) ==
    CASE a.screen = "PostDetail" ->
           [a EXCEPT !.screen = "Feed",
                     !.current_post = None,
                     !.comments = <<>>,
                     !.comment_scroll = 0,
                     !.selected_comment_index = 0]
      [] a.screen = "Feed" ->
           IF a.current_submolt # None
           THEN [a EXCEPT !.current_submolt = None]
           ELSE [a EXCEPT !.should_quit = TRUE]
      [] OTHER -> [a EXCEPT !.screen = "Feed"]

\* defect seeded for C21: leaving the agent profile keeps its posts
go_back_keeping_agent_posts(a) ==
    CASE a.screen = "PostDetail" ->
           IF a.previous_screen = "AgentProfile"
           THEN [a EXCEPT !.screen = "AgentProfile",
                          !.current_post = None,
                          !.comments = <<>>,
                          !.comment_scroll = 0,
                          !.selected_comment_index = 0,
                          !.collapsed_comments = {},
                          !.previous_screen = None]
           ELSE [a EXCEPT !.screen = "Feed",
                          !.current_post = None,
                          !.comments = <<>>,
                          !.comment_scroll = 0,
                          !.selected_comment_index = 0,
                          !.collapsed_comments = {}]
      [] a.screen = "Setup" -> [a EXCEPT !.should_quit = TRUE]
      [] a.screen = "Feed" ->
           IF a.current_submolt # None
           THEN [a EXCEPT !.current_submolt = None]
           ELSE [a EXCEPT !.should_quit = TRUE]
      [] a.screen = "AgentProfile" ->
           [a EXCEPT !.screen = IF a.previous_screen # None
                                THEN a.previous_screen ELSE "Leaderboard",
                     !.previous_screen = None,
                     !.agent_profile = None]
      [] OTHER -> [a EXCEPT !.screen = "Feed"]

go_back(a) ==
    CASE a.screen = "PostDetail" ->
           IF a.previous_screen = "AgentProfile"
           THEN [a EXCEPT !.screen = "AgentProfile",
                          !.current_post = None,
                          !.comments = <<>>,
                          !.comment_scroll = 0,
                          !.selected_comment_index = 0,
                          !.collapsed_comments = {},
                          !.previous_screen = None]
           ELSE [a EXCEPT !.screen = "Feed",
                          !.current_post = None,
                          !.comments = <<>>,
                          !.comment_scroll = 0,
                          !.selected_comment_index = 0,
                          !.collapsed_comments = {}]
      [] a.screen = "Setup" -> [a EXCEPT !.should_quit = TRUE]
      [] a.screen = "Feed" ->
           IF a.current_submolt # None
           THEN [a EXCEPT !.current_submolt = None]
           ELSE [a EXCEPT !.should_quit = TRUE]
      [] a.screen = "AgentProfile" ->
           [a EXCEPT !.screen = IF a.previous_screen # None
                                THEN a.previous_screen ELSE "Leaderboard",
                     !.previous_screen = None,
                     !.agent_profile = None,
                     !.agent_posts = <<>>,
                     !.agent_posts_selected = 0]
      [] a.screen \in {"Stats", "Leaderboard", "TopPairings", "RecentAgents",
                       "Submolts", "Settings"} ->
           [a EXCEPT !.screen = "Feed"]

\* the loop of update_posts that inserts the new ids, one post at a time
RECURSIVE mark_new(_, _, _, _)
mark_new(posts, current_ids, seen, new_ids) ==
    IF posts = <<>> THEN new_ids
    ELSE LET post == Head(posts)
         IN mark_new(Tail(posts), current_ids, seen,
                     IF post \notin current_ids /\ post \notin seen
                     THEN new_ids \cup {post} ELSE new_ids)

\* defect seeded for C6: ids the reader has already opened count as new
update_posts_forgetting_seen(a, posts, t) ==
    LET new_ids == mark_new(posts, Range(a.posts), {}, a.new_post_ids)
        b == [a EXCEPT !.new_post_ids = new_ids,
                       !.posts = posts,
                       !.last_refresh = <<t>>]
    IN IF b.select_bottom_on_load /\ b.posts # <<>>
       THEN [b EXCEPT !.selected_index = Len(b.posts) - 1,
                      !.select_bottom_on_load = FALSE]
       ELSE IF b.selected_index >= Len(b.posts) /\ b.posts # <<>>
            THEN [b EXCEPT !.selected_index = Len(b.posts) - 1]
            ELSE b

update_posts(a, posts, t) ==
    LET current_ids == Range(a.posts)
        new_ids == mark_new(posts, current_ids, a.seen_post_ids,
                            a.new_post_ids)
        b == [a EXCEPT !.new_post_ids = new_ids,
                       !.posts = posts,
                       !.last_refresh = <<t>>]
    IN IF b.select_bottom_on_load /\ b.posts # <<>>
       THEN [b EXCEPT !.selected_index = Len(b.posts) - 1,
                      !.select_bottom_on_load = FALSE]
       ELSE IF b.selected_index >= Len(b.posts) /\ b.posts # <<>>
            THEN [b EXCEPT !.selected_index = Len(b.posts) - 1]
            ELSE b

\* ------------------------------------------------------------ fetch tasks
\* A fetch task is the request it carries; unused fields are None.
Req(kind) ==
    [kind |-> kind, sort |-> None, time |-> None, offset |-> 0,
     submolt |-> None, name |-> None]

load_posts(sort, time_filter, offset, submolt) ==
    [Req("posts") EXCEPT !.sort = sort, !.time = time_filter,
                         !.offset = offset, !.submolt = submolt]

load_post_with_comments(post_id) == [Req("post") EXCEPT !.name = post_id]

load_stats == Req("stats")

load_leaderboard == Req("leaderboard")

load_top_pairings == Req("top_pairings")

load_recent_agents == Req("recent_agents")

load_submolts == Req("submolts")

load_agent_profile(name) == [Req("agent_profile") EXCEPT !.name = name]

load_agent_preview(name) == [Req("agent_preview") EXCEPT !.name = name]

\* the feed request for the page the state is on
load_current_page(a) ==
    load_posts(a.sort_order, time_filter_for_api(a),
               a.current_page * POSTS_LIMIT, a.current_submolt)

\* the feed request for page 0 (sort and time filter keys)
load_first_page(a) ==
    load_posts(a.sort_order, time_filter_for_api(a), 0, a.current_submolt)

\* What a handler leaves behind: the App, the fetch tasks it spawned and
\* whether it indexed a Vec out of bounds (a panic).
Outcome(a, spawn, panic) == [app |-> a, spawn |-> spawn, panic |-> panic]

Same(a) == Outcome(a, <<>>, FALSE)

\* update_agent_preview_for_current_selection
update_agent_preview_for_current_selection(a) ==
    CASE a.screen = "Leaderboard" /\ a.leaderboard # <<>> ->
           IF a.leaderboard_selected >= Len(a.leaderboard)
           THEN Outcome(a, <<>>, TRUE)
           ELSE LET name == a.leaderboard[a.leaderboard_selected + 1]
                IN Outcome([a EXCEPT !.preview_agent_name = name,
                                     !.agent_profile = None,
                                     !.is_preview_loading = TRUE],
                           <<load_agent_preview(name)>>, FALSE)
      [] a.screen = "TopPairings" /\ a.top_pairings # <<>> ->
           IF a.top_pairings_selected >= Len(a.top_pairings)
           THEN Outcome(a, <<>>, TRUE)
           ELSE LET name == a.top_pairings[a.top_pairings_selected + 1]
                IN Outcome([a EXCEPT !.preview_agent_name = name,
                                     !.agent_profile = None,
                                     !.is_preview_loading = TRUE],
                           <<load_agent_preview(name)>>, FALSE)
      [] a.screen = "RecentAgents" /\ a.recent_agents # <<>> ->
           IF a.recent_selected >= Len(a.recent_agents)
           THEN Outcome(a, <<>>, TRUE)
           ELSE LET name == a.recent_agents[a.recent_selected + 1]
                IN Outcome([a EXCEPT !.preview_agent_name = name,
                                     !.agent_profile = None,
                                     !.is_preview_loading = TRUE],
                           <<load_agent_preview(name)>>, FALSE)
      [] OTHER -> Same(a)

\* handle_settings_change
RefreshIntervals == <<0, 10, 30, 60, 120>>

handle_settings_change(a, forward) ==
    CASE a.settings_selected = 0 ->
           [a EXCEPT !.row_display =
               IF forward
               THEN CASE @ = "Compact" -> "Normal"
                      [] @ = "Normal" -> "Comfortable"
                      [] @ = "Comfortable" -> "Compact"
               ELSE CASE @ = "Compact" -> "Comfortable"
                      [] @ = "Normal" -> "Compact"
                      [] @ = "Comfortable" -> "Normal"]
      [] a.settings_selected = 1 ->
           LET found == {i \in 1..Len(RefreshIntervals) :
                            RefreshIntervals[i] = a.refresh_interval_secs}
               current_idx == IF found = {} THEN 1
                              ELSE (CHOOSE i \in found : TRUE) - 1
               n == Len(RefreshIntervals)
               new_idx == IF forward THEN (current_idx + 1) % n
                          ELSE (current_idx + n - 1) % n
           IN [a EXCEPT !.refresh_interval_secs = RefreshIntervals[new_idx + 1]]
      [] OTHER -> a

\* ----------------------------------------------------------- handle_input
\* Keys are named by their character; "j" also stands for Down, "k" for Up,
\* "f" for Right, "+" for "=", "-" for "_", "other" for any unbound key.
REFRESH_INTERVAL_SECS == 30

\* a sort key on the Feed screen: n, t, d, R and s
sort_key(a, order) ==
    IF a.screen = "Feed" /\ ~a.is_loading
    THEN LET b == [set_sort_order(a, order) EXCEPT !.current_page = 0,
                                                   !.is_loading = TRUE]
         IN Outcome(b, <<load_first_page(b)>>, FALSE)
    ELSE Same(a)

\* j / Down
key_down(a) ==
    LET was_at_last == a.selected_index = Max(Len(a.posts) - 1, 0)
        b == select_next(a)
        paging == /\ b.screen = "Feed"
                  /\ was_at_last
                  /\ b.has_more_posts
                  /\ ~b.is_loading
                  /\ b.posts # <<>>
        c == IF paging THEN [next_page(b) EXCEPT !.is_loading = TRUE] ELSE b
        spawn == IF paging THEN <<load_current_page(c)>> ELSE <<>>
    IN IF c.show_agent_preview
       THEN LET o == update_agent_preview_for_current_selection(c)
            IN Outcome(o.app, spawn \o o.spawn, o.panic)
       ELSE Outcome(c, spawn, FALSE)

\* k / Up
key_up(a) ==
    LET was_at_first == a.selected_index = 0
        b == select_previous(a)
        paging == /\ b.screen = "Feed"
                  /\ was_at_first
                  /\ b.current_page > 0
                  /\ ~b.is_loading
                  /\ b.posts # <<>>
        c == IF paging THEN [prev_page(b) EXCEPT !.is_loading = TRUE] ELSE b
        spawn == IF paging THEN <<load_current_page(c)>> ELSE <<>>
    IN IF c.show_agent_preview
       THEN LET o == update_agent_preview_for_current_selection(c)
            IN Outcome(o.app, spawn \o o.spawn, o.panic)
       ELSE Outcome(c, spawn, FALSE)

\* Tab: open the agent preview sidebar on an agent list
open_preview(a, list, cursor) ==
    IF list = <<>> THEN Same(a)
    ELSE IF cursor >= Len(list) THEN Outcome(a, <<>>, TRUE)
    ELSE LET name == list[cursor + 1]
         IN Outcome([a EXCEPT !.preview_agent_name = name,
                              !.agent_profile = None,
                              !.show_agent_preview = TRUE,
                              !.is_loading = TRUE,
                              !.is_preview_loading = TRUE],
                    <<load_agent_preview(name)>>, FALSE)

key_tab(a) ==
    CASE a.screen = "Leaderboard" ->
           open_preview(a, a.leaderboard, a.leaderboard_selected)
      [] a.screen = "TopPairings" ->
           open_preview(a, a.top_pairings, a.top_pairings_selected)
      [] a.screen = "RecentAgents" ->
           open_preview(a, a.recent_agents, a.recent_selected)
      [] OTHER -> Same(a)

\* Enter on an agent list: open the full agent profile
open_profile(a, list, cursor) ==
    IF list = <<>> THEN Same(a)
    ELSE IF cursor >= Len(list) THEN Outcome(a, <<>>, TRUE)
    ELSE Outcome([a EXCEPT !.previous_screen = a.screen,
                           !.screen = "AgentProfile",
                           !.is_loading = TRUE],
                 <<load_agent_profile(list[cursor + 1])>>, FALSE)

key_enter(a) ==
    CASE a.screen = "Feed" ->
           IF selected_post(a) # None
           THEN Outcome([open_selected_post(a) EXCEPT !.is_loading = TRUE],
                        <<load_post_with_comments(selected_post(a))>>, FALSE)
           ELSE Same(a)
      [] a.screen = "PostDetail" ->
           IF get_selected_comment_id(a) # None
           THEN Same(toggle_comment_collapse(a, get_selected_comment_id(a)))
           ELSE Same(a)
      [] a.screen = "Leaderboard" ->
           open_profile(a, a.leaderboard, a.leaderboard_selected)
      [] a.screen = "TopPairings" ->
           open_profile(a, a.top_pairings, a.top_pairings_selected)
      [] a.screen = "RecentAgents" ->
           open_profile(a, a.recent_agents, a.recent_selected)
      [] a.screen = "AgentProfile" ->
           IF a.agent_posts = <<>> THEN Same(a)
           ELSE IF a.agent_posts_selected >= Len(a.agent_posts)
           THEN Outcome(a, <<>>, TRUE)
           ELSE LET post == a.agent_posts[a.agent_posts_selected + 1]
                IN Outcome([a EXCEPT !.previous_screen = "AgentProfile",
                                     !.current_post = post,
                                     !.comments = <<>>,
                                     !.comment_scroll = 0,
                                     !.selected_comment_index = 0,
                                     !.screen = "PostDetail",
                                     !.is_loading = TRUE],
                           <<load_post_with_comments(post)>>, FALSE)
      [] a.screen = "Submolts" ->
           IF a.submolts = <<>> THEN Same(a)
           ELSE IF a.submolts_selected >= Len(a.submolts)
           THEN Outcome(a, <<>>, TRUE)
           ELSE LET submolt == a.submolts[a.submolts_selected + 1]
                    b == [a EXCEPT !.current_submolt = submolt.name,
                                   !.screen = "Feed",
                                   !.current_page = 0,
                                   !.selected_index = 0,
                                   !.is_loading = TRUE]
                IN Outcome(b, <<load_posts(b.sort_order,
                                           time_filter_for_api(b), 0,
                                           submolt.name)>>, FALSE)
      [] OTHER -> Same(a)

\* r: reload the data of the current screen
key_refresh(a) ==
    IF a.is_loading THEN Same(a)
    ELSE LET b == [a EXCEPT !.is_loading = TRUE]
         IN CASE a.screen = "Feed" -> Outcome(b, <<load_current_page(b)>>, FALSE)
              [] a.screen = "Leaderboard" ->
                   Outcome(b, <<load_leaderboard>>, FALSE)
              [] a.screen = "TopPairings" ->
                   Outcome(b, <<load_top_pairings>>, FALSE)
              [] a.screen = "RecentAgents" ->
                   Outcome(b, <<load_recent_agents>>, FALSE)
              [] a.screen = "Submolts" -> Outcome(b, <<load_submolts>>, FALSE)
              [] a.screen = "Stats" -> Outcome(b, <<load_stats>>, FALSE)
              [] a.screen = "AgentProfile" /\ a.agent_profile # None ->
                   Outcome(b, <<load_agent_profile(a.agent_profile)>>, FALSE)
              [] OTHER -> Same(a)

\* 1 .. 7: switch screen, loading the screen's data when it has none
\* (also handle_screen_switch of src/src/mouse.rs)
switch_screen(a, target, empty, fetch) ==
    IF empty
    THEN Outcome([a EXCEPT !.screen = target, !.is_loading = TRUE],
                 <<fetch>>, FALSE)
    ELSE Same([a EXCEPT !.screen = target])

\* f / Right and Left
key_cycle(a, forward) ==
    IF a.screen = "Submolts"
    THEN Same(IF forward THEN select_right(a) ELSE select_left(a))
    ELSE IF a.screen = "Settings"
    THEN Same(handle_settings_change(a, forward))
    ELSE IF a.screen = "Feed" /\ ~a.is_loading /\ a.sort_order # "New"
    THEN LET c == IF forward THEN cycle_time_filter(a)
                  ELSE cycle_time_filter_reverse(a)
             b == [c EXCEPT !.current_page = 0, !.is_loading = TRUE]
         IN Outcome(b, <<load_first_page(b)>>, FALSE)
    ELSE Same(a)

\* the keys handled once no modal owns the input
handle_key(a, key) ==
    CASE key = "q" -> Same([a EXCEPT !.should_quit = TRUE])
      [] key = "?" -> Same(toggle_help(a))
      [] key = "j" -> key_down(a)
      [] key = "k" -> key_up(a)
      [] key = "h" -> Same(select_left(a))
      [] key = "l" -> Same(select_right(a))
      [] key = "Space" ->
           IF a.screen = "Submolts" /\ a.submolts # <<>>
           THEN Same([a EXCEPT !.show_submolt_detail = TRUE]) ELSE Same(a)
      [] key = "Tab" -> key_tab(a)
      [] key = "Enter" -> key_enter(a)
      [] key = "Esc" -> Same(go_back(a))
      [] key = "r" -> key_refresh(a)
      [] key = "n" -> sort_key(a, "New")
      [] key = "t" -> sort_key(a, "Top")
      [] key = "d" -> sort_key(a, "Discussed")
      [] key = "R" -> sort_key(a, "Random")
      [] key = "s" -> sort_key(a, "Random")
      [] key = "f" -> key_cycle(a, TRUE)
      [] key = "Left" -> key_cycle(a, FALSE)
      [] key = "N" ->
           IF a.screen = "Feed" /\ ~a.is_loading /\ a.has_more_posts
           THEN LET b == [next_page(a) EXCEPT !.is_loading = TRUE]
                IN Outcome(b, <<load_current_page(b)>>, FALSE)
           ELSE Same(a)
      [] key = "P" ->
           IF a.screen = "Feed" /\ ~a.is_loading /\ a.current_page > 0
           THEN LET b == [prev_page(a) EXCEPT !.is_loading = TRUE]
                IN Outcome(b, <<load_current_page(b)>>, FALSE)
           ELSE Same(a)
      [] key = "1" -> Same([a EXCEPT !.screen = "Feed"])
      [] key = "2" -> switch_screen(a, "Leaderboard", a.leaderboard = <<>>,
                                    load_leaderboard)
      [] key = "3" -> switch_screen(a, "TopPairings", a.top_pairings = <<>>,
                                    load_top_pairings)
      [] key = "4" -> switch_screen(a, "RecentAgents", a.recent_agents = <<>>,
                                    load_recent_agents)
      [] key = "5" -> switch_screen(a, "Submolts", a.submolts = <<>>,
                                    load_submolts)
      [] key = "6" -> switch_screen(a, "Stats", a.stats = None, load_stats)
      [] key = "7" -> Same([a EXCEPT !.screen = "Settings"])
      [] key = "8" -> Same(toggle_about(a))
      [] key = "+" ->
           Same([a EXCEPT !.refresh_interval_secs = Min(@ + 5, 60)])
      [] key = "-" ->
           Same([a EXCEPT !.refresh_interval_secs = Max(@ - 5, 0)])
      [] key = "a" ->
           Same([a EXCEPT !.refresh_interval_secs =
                    IF @ = 0 THEN REFRESH_INTERVAL_SECS ELSE 0])
      [] key = "Backtick" -> Same(toggle_debug(a))
      [] OTHER -> Same(a)

\* the error modal's keys
error_modal_key(a, key) ==
    CASE key = "e" ->
           Same([a EXCEPT !.show_technical_error = ~a.show_technical_error])
      [] key = "r" ->
           IF a.screen = "Feed"
           THEN LET b == [a EXCEPT !.error_message = None,
                                   !.show_technical_error = FALSE,
                                   !.is_loading = TRUE]
                IN Outcome(b, <<load_current_page(b)>>, FALSE)
           ELSE Same(a)
      [] key = "Esc" ->
           Same([a EXCEPT !.error_message = None,
                          !.show_technical_error = FALSE])
      [] OTHER -> Same(a)

handle_input(a, key) ==
    IF a.screen = "Setup"
    THEN IF key = "Esc" THEN Same([a EXCEPT !.should_quit = TRUE]) ELSE Same(a)
    ELSE IF a.show_help
    THEN IF key \in {"?", "Esc"} THEN Same(toggle_help(a)) ELSE Same(a)
    ELSE IF a.show_about
    THEN IF key \in {"8", "Esc"} THEN Same(toggle_about(a)) ELSE Same(a)
    ELSE IF a.show_submolt_detail
    THEN IF key \in {"Space", "Esc"}
         THEN Same([a EXCEPT !.show_submolt_detail = FALSE]) ELSE Same(a)
    ELSE IF a.show_agent_preview /\ key \in {"Tab", "Esc"}
    THEN Same([a EXCEPT !.show_agent_preview = FALSE,
                        !.preview_agent_name = None])
    ELSE IF a.show_agent_preview /\ key = "Enter"
    THEN Same([a EXCEPT !.show_agent_preview = FALSE,
                        !.preview_agent_name = None,
                        !.previous_screen = a.screen,
                        !.screen = "AgentProfile"])
    ELSE IF a.show_agent_preview /\ key \notin {"j", "k"}
    THEN Same(a)
    ELSE IF a.error_message # None
    THEN error_modal_key(a, key)
    ELSE handle_key(a, key)

\* -------------------------------------------------------------- renderer
\* ui::render writes submolts_scroll_row (render_submolts) and indexes
\* submolts at the cursor (render_submolt_detail_modal).
render(a) ==
    IF a.screen = "Submolts"
    THEN LET selected_row == a.submolts_selected \div 4
         IN [a EXCEPT !.submolts_scroll_row =
                IF selected_row < @ THEN selected_row
                ELSE IF selected_row >= @ + VisibleRows
                     THEN Max(selected_row - (VisibleRows - 1), 0)
                     ELSE @]
    ELSE a

render_panics(a) ==
    /\ a.screen = "Submolts"
    /\ a.show_submolt_detail
    /\ a.submolts # <<>>
    /\ a.submolts_selected >= Len(a.submolts)

\* ------------------------------------------- completion event handlers
posts_loaded(a, posts, has_more, t) ==
    update_posts([a EXCEPT !.is_loading = FALSE,
                           !.is_background_loading = FALSE,
                           !.error_message = None,
                           !.has_more_posts = has_more], posts, t)

\* defect seeded for C27: comments that arrive off the post are dropped
comments_loaded_on_detail(a, comments) ==
    IF a.screen = "PostDetail"
    THEN [a EXCEPT !.is_loading = FALSE, !.error_message = None,
                   !.comments = comments]
    ELSE a

comments_loaded(a, comments) ==
    [a EXCEPT !.is_loading = FALSE, !.error_message = None,
              !.comments = comments]

stats_loaded(a, stats) == [a EXCEPT !.stats = stats]

leaderboard_loaded(a, leaderboard) ==
    [a EXCEPT !.is_loading = FALSE, !.error_message = None,
              !.leaderboard = leaderboard]

top_pairings_loaded(a, top_pairings) ==
    [a EXCEPT !.is_loading = FALSE, !.error_message = None,
              !.top_pairings = top_pairings]

recent_agents_loaded(a, agents) ==
    [a EXCEPT !.is_loading = FALSE, !.error_message = None,
              !.recent_agents = agents]

\* defect seeded for C11: the comparator looks at subscriber_count only
submolt_less_by_count(x, y) == x.subscriber_count > y.subscriber_count

\* the comparator of submolts.sort_by: TRUE when x must come before y
submolt_less(x, y) ==
    IF x.featured /\ ~y.featured THEN TRUE
    ELSE IF ~x.featured /\ y.featured THEN FALSE
    ELSE x.subscriber_count > y.subscriber_count

\* sort_by is a stable sort: insertion after the last element not greater
RECURSIVE insert_sorted(_, _)
insert_sorted(sorted, x) ==
    IF sorted = <<>> THEN <<x>>
    ELSE IF submolt_less(x, Head(sorted))
         THEN <<x>> \o sorted
         ELSE <<Head(sorted)>> \o insert_sorted(Tail(sorted), x)

RECURSIVE sort_submolts(_)
sort_submolts(submolts) ==
    IF submolts = <<>> THEN <<>>
    ELSE insert_sorted(sort_submolts(SubSeq(submolts, 1, Len(submolts) - 1)),
                       submolts[Len(submolts)])

submolts_loaded(a, submolts) ==
    [a EXCEPT !.is_loading = FALSE, !.error_message = None,
              !.submolts = sort_submolts(submolts)]

agent_profile_loaded(a, agent, recent_posts) ==
    [a EXCEPT !.is_loading = FALSE, !.error_message = None,
              !.agent_profile = agent,
              !.agent_posts = recent_posts,
              !.agent_posts_selected = 0,
              !.show_agent_preview = FALSE,
              !.preview_agent_name =
                  IF a.show_agent_preview THEN None ELSE @]

agent_preview_loaded(a, agent, recent_posts) ==
    [a EXCEPT !.is_loading = FALSE, !.is_preview_loading = FALSE,
              !.error_message = None,
              !.agent_profile = agent,
              !.agent_posts = recent_posts,
              !.agent_posts_selected = 0]

\* defect seeded for C25: an error leaves the loading flag up
error_event_still_loading(a, msg) == [a EXCEPT !.error_message = msg]

error_event(a, msg) == [a EXCEPT !.is_loading = FALSE, !.error_message = msg]

\* the Error message each fetch task sends when its gateway call fails
error_text(kind) ==
    CASE kind = "posts" -> "Failed to load posts"
      [] kind = "post" -> "Failed to load comments"
      [] kind = "stats" -> "Failed to load stats"
      [] kind = "leaderboard" -> "Failed to load leaderboard"
      [] kind = "top_pairings" -> "Failed to load top pairings"
      [] kind = "recent_agents" -> "Failed to load recent agents"
      [] kind = "submolts" -> "Failed to load submolts"
      [] kind = "agent_profile" -> "Failed to load agent profile"
      [] kind = "agent_preview" -> "Failed to load agent profile"

\* ------------------------------------------------------------- payloads
\* what the gateway may answer, drawn from small sets
RECURSIVE SeqsNoDup(_, _)
SeqsNoDup(S, n) ==
    IF n = 0 THEN {<<>>}
    ELSE {<<>>} \cup {<<x>> \o s : x \in S, s \in SeqsNoDup(S, n - 1)}

Distinct(s) == \A i, j \in 1..Len(s) : i # j => s[i] # s[j]

\* a feed page: at most POSTS_LIMIT posts with distinct ids
PostsPayloads == {s \in SeqsNoDup(PostIds, POSTS_LIMIT) : Distinct(s)}

\* an agent list: the first n known agents
ListPayloads == {SubSeq(AgentNames, 1, n) : n \in 0..MaxList}

\* an agent's recent posts
AgentPostsPayloads == {<<>>, <<"A">>}

KnownSubmolts ==
    <<[name |-> "s1", subscriber_count |-> 10, featured |-> FALSE],
      [name |-> "s2", subscriber_count |-> 5, featured |-> TRUE],
      [name |-> "s3", subscriber_count |-> 20, featured |-> FALSE]>>

SubmoltsPayloads == {SubSeq(KnownSubmolts, 1, n) : n \in 0..MaxList}

\* comment forests whose pre-order is the given sequence of ids
RECURSIVE ForestsOf(_)
ForestsOf(ids) ==
    IF ids = <<>> THEN {<<>>}
    ELSE UNION {
           {<<[id |-> ids[1], replies |-> r]>> \o rest :
               r \in ForestsOf(SubSeq(ids, 2, k + 1)),
               rest \in ForestsOf(SubSeq(ids, k + 2, Len(ids)))} :
           k \in 0..(Len(ids) - 1)}

\* the feed pages of the dispatch loop: the first n posts of the feed
FeedPages == {SubSeq(<<"A", "B", "C">>, 1, n) : n \in 0..Min(POSTS_LIMIT, 3)}

\* the comment payloads of the dispatch loop: no comment, or c1 with reply c2
CommentsPayloads ==
    {<<>>,
     <<[id |-> "c1", replies |-> <<[id |-> "c2", replies |-> <<>>]>>]>>}

\* ------------------------------------------------------ the dispatch loop
Running == ~app.should_quit /\ ~panicked

Spawn(bag, reqs) ==
    IF reqs = <<>> THEN bag
    ELSE IF Len(reqs) = 1 THEN bag (+) SetToBag({reqs[1]})
    ELSE bag (+) SetToBag({reqs[1]}) (+) SetToBag({reqs[2]})

\* one iteration: the handler's outcome, then the redraw at the loop head
Apply(o, bag) ==
    /\ BagCardinality(bag) + Len(o.spawn) <= MaxInflight
    /\ o.app.current_page <= MaxPage
    /\ IF o.panic \/ render_panics(o.app)
       THEN /\ panicked' = TRUE
            /\ UNCHANGED <<app, inflight>>
       ELSE /\ app' = render(o.app)
            /\ inflight' = Spawn(bag, o.spawn)
            /\ UNCHANGED panicked
    /\ UNCHANGED <<now, call, ret, loop_vars>>

Input(key) ==
    /\ Running
    /\ Apply(handle_input(app, key), inflight)

Done(req) == inflight (-) SetToBag({req})

PostsLoaded(req, posts) ==
    /\ Running
    /\ req.kind = "posts" /\ BagIn(req, inflight)
    /\ Apply(Same(posts_loaded(app, posts, Len(posts) = POSTS_LIMIT, now)), Done(req))

CommentsLoaded(req, comments) ==
    /\ Running
    /\ req.kind = "post" /\ BagIn(req, inflight)
    /\ Apply(Same(comments_loaded(app, comments)), Done(req))

StatsLoaded(req) ==
    /\ Running
    /\ req.kind = "stats" /\ BagIn(req, inflight)
    /\ Apply(Same(stats_loaded(app, "stats")), Done(req))

LeaderboardLoaded(req, list) ==
    /\ Running
    /\ req.kind = "leaderboard" /\ BagIn(req, inflight)
    /\ Apply(Same(leaderboard_loaded(app, list)), Done(req))

TopPairingsLoaded(req, list) ==
    /\ Running
    /\ req.kind = "top_pairings" /\ BagIn(req, inflight)
    /\ Apply(Same(top_pairings_loaded(app, list)), Done(req))

RecentAgentsLoaded(req, list) ==
    /\ Running
    /\ req.kind = "recent_agents" /\ BagIn(req, inflight)
    /\ Apply(Same(recent_agents_loaded(app, list)), Done(req))

SubmoltsLoaded(req, list) ==
    /\ Running
    /\ req.kind = "submolts" /\ BagIn(req, inflight)
    /\ Apply(Same(submolts_loaded(app, list)), Done(req))

AgentProfileLoaded(req, posts) ==
    /\ Running
    /\ req.kind = "agent_profile" /\ BagIn(req, inflight)
    /\ Apply(Same(agent_profile_loaded(app, req.name, posts)), Done(req))

AgentPreviewLoaded(req, posts) ==
    /\ Running
    /\ req.kind = "agent_preview" /\ BagIn(req, inflight)
    /\ Apply(Same(agent_preview_loaded(app, req.name, posts)), Done(req))

FetchError(req) ==
    /\ Running
    /\ BagIn(req, inflight)
    /\ Apply(Same(error_event(app, error_text(req.kind))), Done(req))

\* main(): App::new(), the configured refresh interval, the initial feed
\* and stats fetches, and the first redraw
InitLoop(refresh) ==
    /\ app = render([App_new EXCEPT !.refresh_interval_secs = refresh,
                                    !.is_loading = TRUE])
    /\ inflight = SetToBag({load_posts("New", None, 0, None), load_stats})
    /\ panicked = FALSE
    /\ call = <<>>
    /\ now = 0
    /\ ret = None
    /\ channel = <<>> /\ pc = "recv" /\ log = <<>>
    /\ terminal = TerminalEntered /\ debug_log = <<>>
    /\ tasks = TasksSpawned

\* the completions every screen can receive: the feed, a post's comments,
\* the stats and a failed fetch
CompleteFeed(pages, forests) ==
    \E req \in BagToSet(inflight) :
        \/ \E posts \in pages : PostsLoaded(req, posts)
        \/ \E comments \in forests : CommentsLoaded(req, comments)
        \/ StatsLoaded(req)
        \/ FetchError(req)

\* the completions of the leaderboard and of the agent profile and preview
CompleteAgents ==
    \E req \in BagToSet(inflight) :
        \/ \E list \in ListPayloads : LeaderboardLoaded(req, list)
        \/ \E posts \in AgentPostsPayloads :
              \/ AgentProfileLoaded(req, posts)
              \/ AgentPreviewLoaded(req, posts)

\* The feed and post detail screens: paging, opening and leaving posts.
FeedKeys == {"j", "k", "Enter", "Esc", "r", "N", "P", "1"}

Init == InitLoop(0)

Next ==
    \/ \E key \in FeedKeys : Input(key)
    \/ CompleteFeed(FeedPages, CommentsPayloads)

Spec == Init /\ [][Next]_vars

\* The leaderboard, the agent preview sidebar and the agent profile, with a
\* feed of one post.
ListKeys == {"j", "k", "Enter", "Esc", "r", "Tab", "2"}

NextLists ==
    \/ \E key \in ListKeys : Input(key)
    \/ CompleteFeed({<<"A">>}, {<<>>})
    \/ CompleteAgents

SpecLists == Init /\ [][NextLists]_vars

\* ------------------------------------------------------------------ claims
InBounds(cursor, list) ==
    IF list = <<>> THEN cursor = 0 ELSE cursor < Len(list)

\* C1: in every state reachable through the dispatch loop each per-screen
\* cursor is below the length of its collection, or 0 when the collection
\* is empty, also right after a completion installed a shorter collection.
C1_CursorsInBounds ==
    /\ InBounds(app.selected_index, app.posts)
    /\ InBounds(app.leaderboard_selected, app.leaderboard)
    /\ InBounds(app.top_pairings_selected, app.top_pairings)
    /\ InBounds(app.recent_selected, app.recent_agents)
    /\ InBounds(app.submolts_selected, app.submolts)
    /\ InBounds(app.agent_posts_selected, app.agent_posts)

\* C2: no sequence of events makes a handler or the renderer index a
\* collection at a cursor position >= its length (no event panics the loop).
C2_NoPanic == ~panicked

\* C4: on the Feed screen open_selected_post with a post under the cursor
\* yields current_post = that post, no comments, comment_scroll = 0,
\* selected_comment_index = 0, the id seen and no longer new, and the
\* PostDetail screen; with no post under the cursor it changes nothing.
C4_OpenSelectedPost ==
    app.screen = "Feed" =>
        LET post == selected_post(app)
            b == open_selected_post(app)
        IN IF post # None
           THEN /\ b.current_post = post
                /\ b.comments = <<>>
                /\ b.comment_scroll = 0
                /\ b.selected_comment_index = 0
                /\ post \notin b.new_post_ids
                /\ post \in b.seen_post_ids
                /\ b.screen = "PostDetail"
           ELSE b = app

\* ----------------------------------------- comment tree: method-level calls
Permutations_(S) ==
    {s \in SeqsNoDup(S, Cardinality(S)) :
        Len(s) = Cardinality(S) /\ Distinct(s)}

\* every forest of at most MaxComments comments, under every assignment of
\* distinct ids to its comments
Forests ==
    UNION {UNION {ForestsOf(ids) :
                    ids \in Permutations_(Range(SubSeq(CommentIds, 1, n)))} :
           n \in 0..Min(MaxComments, Len(CommentIds))}

NoLoop ==
/\ channel = <<>> /\ pc = "recv" /\ log = <<>>
    /\ terminal = TerminalEntered /\ debug_log = <<>>
    /\ tasks = TasksSpawned

Idle == inflight = EmptyBag /\ panicked = FALSE /\ now = 0 /\ NoLoop

InitComments ==
    /\ \E forest \in Forests :
         app = [App_new EXCEPT !.screen = "PostDetail", !.current_post = "A",
                               !.comments = forest]
    /\ Idle /\ call = <<>> /\ ret = None

ToggleCommentCollapse(comment_id) ==
    /\ app' = toggle_comment_collapse(app, comment_id)
    /\ call' = <<"toggle_comment_collapse", comment_id>>
    /\ ret' = None
    /\ UNCHANGED <<inflight, panicked, now, loop_vars>>

GetVisibleCommentIds ==
    /\ ret' = get_visible_comment_ids(app)
    /\ call' = <<"get_visible_comment_ids">>
    /\ UNCHANGED <<app, inflight, panicked, now, loop_vars>>

NextComments ==
    \/ \E comment_id \in Range(CommentIds) : ToggleCommentCollapse(comment_id)
    \/ GetVisibleCommentIds

SpecComments == InitComments /\ [][NextComments]_vars

\* a comment's position in the forest: the child indices from a root down
RECURSIVE PathsOf(_)
PathsOf(forest) ==
    UNION {{<<i>>} \cup {<<i>> \o p : p \in PathsOf(forest[i].replies)} :
           i \in 1..Len(forest)}

RECURSIVE NodeAt(_, _)
NodeAt(forest, p) ==
    IF Len(p) = 1 THEN forest[p[1]]
    ELSE NodeAt(forest[p[1]].replies, Tail(p))

\* the positions none of whose proper ancestors is collapsed
Shown(forest, collapsed) ==
    {p \in PathsOf(forest) :
        \A k \in 1..(Len(p) - 1) :
            NodeAt(forest, SubSeq(p, 1, k)).id \notin collapsed}

\* p comes before q in pre-order: p is an ancestor of q, or at the first
\* level where they differ p is in the earlier sibling's subtree
PathBefore(p, q) ==
    \/ Len(p) < Len(q) /\ SubSeq(q, 1, Len(p)) = p
    \/ \E k \in 1..Min(Len(p), Len(q)) :
          /\ SubSeq(p, 1, k - 1) = SubSeq(q, 1, k - 1)
          /\ p[k] < q[k]

\* C3: get_visible_comment_ids lists exactly the comments none of whose
\* proper ancestors is collapsed (so every root), each once, in pre-order:
\* a parent before its replies and siblings in their order.
C3_VisibleIsPreorder ==
    LET forest == app.comments
        v == get_visible_comment_ids(app)
        shown == Shown(forest, app.collapsed_comments)
    IN /\ Len(v) = Cardinality(shown)
       /\ Range(v) = {NodeAt(forest, p).id : p \in shown}
       /\ \A i \in 1..Len(forest) : forest[i].id \in Range(v)
       /\ \A i, j \in 1..Len(v) :
            i < j => \E p, q \in shown :
                        /\ NodeAt(forest, p).id = v[i]
                        /\ NodeAt(forest, q).id = v[j]
                        /\ PathBefore(p, q)
       /\ call = <<"get_visible_comment_ids">> => ret = v

\* a collapsed root hides its reply while the next root stays listed:
\* [A(collapsed, [A1]), B] gives [A, B]
C3_Witness ==
    /\ call = <<"get_visible_comment_ids">>
    /\ Len(app.comments) = 2
    /\ Len(app.comments[1].replies) = 1
    /\ app.comments[1].id \in app.collapsed_comments
    /\ ret = <<app.comments[1].id, app.comments[2].id>>

\* ------------------------------------------------ feed: method-level calls
InitPosts == app = App_new /\ Idle /\ call = <<>> /\ ret = None

Called(name, b) ==
    /\ ~app.should_quit
    /\ b.current_page <= MaxPage
    /\ app' = b
    /\ call' = name
    /\ ret' = None
    /\ UNCHANGED <<inflight, panicked, now, loop_vars>>

\* AppEvent::PostsLoaded: update_posts with the page the gateway returned;
\* load_posts reports more pages exactly when the page is full
UpdatePosts(posts) ==
    Called(<<"update_posts">>,
           posts_loaded(app, posts, Len(posts) = POSTS_LIMIT, now))

NextPage == Called(<<"next_page">>, next_page(app))

PrevPage == Called(<<"prev_page">>, prev_page(app))

SelectNext == Called(<<"select_next">>, select_next(app))

SelectPrevious == Called(<<"select_previous">>, select_previous(app))

OpenSelectedPost ==
    app.screen = "Feed" /\ Called(<<"open_selected_post">>, open_selected_post(app))

GoBack == Called(<<"go_back">>, go_back(app))

NextPosts ==
    \/ \E posts \in PostsPayloads : UpdatePosts(posts)
    \/ NextPage
    \/ PrevPage
    \/ SelectNext
    \/ SelectPrevious
    \/ OpenSelectedPost
    \/ GoBack

SpecPosts == InitPosts /\ [][NextPosts]_vars

\* C6: update_posts leaves new_post_ids equal to its previous value united
\* with the incoming ids that were neither among the posts held before the
\* call nor in seen_post_ids, and leaves seen_post_ids unchanged.
C6_NewPostDetection ==
    [][call' = <<"update_posts">> =>
         /\ app'.new_post_ids =
              app.new_post_ids \cup
              {id \in Range(app'.posts) :
                  id \notin Range(app.posts) /\ id \notin app.seen_post_ids}
         /\ app'.seen_post_ids = app.seen_post_ids]_vars

\* seen = {A}, previous posts {A, B}, incoming {B, C}: C became new, the
\* seen A did not
C6_Witness ==
    /\ call = <<"update_posts">>
    /\ app.posts = <<"B", "C">>
    /\ app.seen_post_ids = {"A"}
    /\ "C" \in app.new_post_ids
    /\ "A" \notin app.new_post_ids

GridOf(n) ==
    [i \in 1..n |-> [name |-> "s" \o ToString(i),
                     subscriber_count |-> n - i, featured |-> FALSE]]

\* the screen's collection length and its cursor
screen_len(a) ==
    CASE a.screen = "Feed" -> Len(a.posts)
      [] a.screen = "PostDetail" -> Len(get_visible_comment_ids(a))
      [] a.screen = "Leaderboard" -> Len(a.leaderboard)
      [] a.screen = "TopPairings" -> Len(a.top_pairings)
      [] a.screen = "RecentAgents" -> Len(a.recent_agents)
      [] a.screen = "Submolts" -> Len(a.submolts)
      [] a.screen = "Settings" -> 2
      [] a.screen = "AgentProfile" -> Len(a.agent_posts)
      [] OTHER -> 0

screen_cursor(a) ==
    CASE a.screen = "Feed" -> a.selected_index
      [] a.screen = "PostDetail" -> a.selected_comment_index
      [] a.screen = "Leaderboard" -> a.leaderboard_selected
      [] a.screen = "TopPairings" -> a.top_pairings_selected
      [] a.screen = "RecentAgents" -> a.recent_selected
      [] a.screen = "Submolts" -> a.submolts_selected
      [] a.screen = "Settings" -> a.settings_selected
      [] a.screen = "AgentProfile" -> a.agent_posts_selected
      [] OTHER -> 0

\* every screen, holding a collection of every length up to the bound
CursorStates ==
    LET at(screen) == [App_new EXCEPT !.screen = screen]
        agents(n) == SubSeq(AgentNames, 1, n)
    IN {at("Setup"), at("Stats"), at("Settings")}
       \cup {[at("Feed") EXCEPT !.posts = SubSeq(<<"A", "B", "C">>, 1, n)] :
               n \in 0..Min(POSTS_LIMIT, 3)}
       \cup {[at("PostDetail") EXCEPT !.current_post = "A",
                                      !.comments = forest,
                                      !.collapsed_comments = collapsed] :
               forest \in Forests, collapsed \in SUBSET Range(CommentIds)}
       \cup {[at("Leaderboard") EXCEPT !.leaderboard = agents(n)] :
               n \in 0..Min(MaxList, 3)}
       \cup {[at("TopPairings") EXCEPT !.top_pairings = agents(n)] :
               n \in 0..Min(MaxList, 3)}
       \cup {[at("RecentAgents") EXCEPT !.recent_agents = agents(n)] :
               n \in 0..Min(MaxList, 3)}
       \cup {[at("AgentProfile") EXCEPT !.agent_posts =
                                          SubSeq(<<"A", "B", "C">>, 1, n)] :
               n \in 0..Min(MaxList, 3)}
       \cup {[at("Submolts") EXCEPT !.submolts = GridOf(n)] : n \in 0..MaxGrid}

InitCursor ==
    /\ \E a \in CursorStates, cursor \in 0..MaxGrid :
         /\ InBounds(cursor, [i \in 1..screen_len(a) |-> i])
         /\ app = CASE a.screen = "Feed" -> [a EXCEPT !.selected_index = cursor]
                    [] a.screen = "PostDetail" ->
                         [a EXCEPT !.selected_comment_index = cursor]
                    [] a.screen = "Leaderboard" ->
                         [a EXCEPT !.leaderboard_selected = cursor]
                    [] a.screen = "TopPairings" ->
                         [a EXCEPT !.top_pairings_selected = cursor]
                    [] a.screen = "RecentAgents" ->
                         [a EXCEPT !.recent_selected = cursor]
                    [] a.screen = "Submolts" ->
                         [a EXCEPT !.submolts_selected = cursor]
                    [] a.screen = "Settings" ->
                         [a EXCEPT !.settings_selected = cursor]
                    [] a.screen = "AgentProfile" ->
                         [a EXCEPT !.agent_posts_selected = cursor]
                    [] OTHER -> a
    /\ Idle /\ call = <<>> /\ ret = None

SelectLeft == Called(<<"select_left">>, select_left(app))

SelectRight == Called(<<"select_right">>, select_right(app))

NextCursor ==
    \/ SelectNext
    \/ SelectPrevious
    \/ SelectLeft
    \/ SelectRight

SpecCursor == InitCursor /\ [][NextCursor]_vars

\* C8: under select_next / select_previous the cursor of the screen stays
\* in [0, len) while its collection (on PostDetail the visible comments) is
\* non-empty, and a call on an empty collection changes nothing.
C8_CursorClamping ==
    /\ [](screen_len(app) > 0 => screen_cursor(app) < screen_len(app))
    /\ [][(call' \in {<<"select_next">>, <<"select_previous">>}
            /\ screen_len(app) = 0) => app' = app]_vars

\* select_next left the cursor on the last of the two comments that a
\* collapsed comment leaves visible
C8_Witness ==
    /\ call = <<"select_next">>
    /\ app.screen = "PostDetail"
    /\ Len(get_visible_comment_ids(app)) = 2
    /\ app.collapsed_comments # {}
    /\ app.selected_comment_index = 1

\* C9: on the Submolts grid select_left / select_right move by one inside a
\* row of 4 or not at all, select_next / select_previous move by exactly 4
\* or not at all, and no move leaves [0, len).
C9_GridNavigation ==
    [][app.screen = "Submolts" =>
         LET i == app.submolts_selected
             n == Len(app.submolts)
             moved(j) == app' = [app EXCEPT !.submolts_selected = j]
         IN /\ call' = <<"select_left">> =>
                 IF i % 4 = 0 THEN app' = app ELSE moved(i - 1)
            /\ call' = <<"select_right">> =>
                 IF i % 4 = 3 \/ i + 1 >= n THEN app' = app ELSE moved(i + 1)
            /\ call' = <<"select_next">> =>
                 IF i + 4 >= n THEN app' = app ELSE moved(i + 4)
            /\ call' = <<"select_previous">> =>
                 IF i - 4 < 0 THEN app' = app ELSE moved(i - 4)
            /\ call' \in {<<"select_left">>, <<"select_right">>} =>
                 app'.submolts_selected \div 4 = i \div 4
            /\ call' \in {<<"select_next">>, <<"select_previous">>} =>
                 app'.submolts_selected % 4 = i % 4]_vars

\* select_right at the last submolt, first of the second row: no move can
\* have led there, the call was refused
C9_Witness ==
    /\ call = <<"select_right">>
    /\ app.screen = "Submolts"
    /\ app.submolts_selected = 4
    /\ Len(app.submolts) = 5

\* --------------------------------------------- go_back: method-level calls
\* what PostDetail leaves behind: no post; a post whose comments have not
\* arrived; a post with comments, the cursor and the collapsed set anywhere
DetailStates ==
    {[App_new EXCEPT !.current_post = post, !.comments = comments,
                     !.collapsed_comments = collapsed,
                     !.selected_comment_index = index] :
        post \in {None, "A"}, comments \in CommentsPayloads,
        collapsed \in SUBSET {"c1"}, index \in 0..1}

BackStates ==
    {[a EXCEPT !.screen = screen, !.previous_screen = previous,
               !.current_submolt = submolt] :
        a \in {d \in DetailStates :
                 /\ d.current_post = None =>
                      d.comments = <<>> /\ d.collapsed_comments = {}
                 /\ InBounds(d.selected_comment_index,
                             get_visible_comment_ids(d))},
        screen \in Screens \ {"Setup"},
        previous \in {None, "AgentProfile", "Leaderboard"},
        submolt \in {None, "s1"}}

InitBack ==
    /\ app \in {a \in BackStates : a.screen = "PostDetail" => a.current_post # None}
    /\ Idle /\ call = <<>> /\ ret = None

NextBack == GoBack

SpecBack == InitBack /\ [][NextBack]_vars

\* C5: go_back from PostDetail lands on AgentProfile when previous_screen is
\* AgentProfile and on Feed otherwise, clearing current_post, comments,
\* comment_scroll, selected_comment_index and collapsed_comments; from Feed
\* with a submolt filter it clears the filter, stays on Feed and does not
\* request quit; from Feed without a filter it only sets should_quit.
C5_GoBack ==
    [][call' = <<"go_back">> =>
         /\ app.screen = "PostDetail" =>
              /\ app'.screen = IF app.previous_screen = "AgentProfile"
                               THEN "AgentProfile" ELSE "Feed"
              /\ app'.current_post = None
              /\ app'.comments = <<>>
              /\ app'.comment_scroll = 0
              /\ app'.selected_comment_index = 0
              /\ app'.collapsed_comments = {}
         /\ (app.screen = "Feed" /\ app.current_submolt # None) =>
              /\ app'.current_submolt = None
              /\ app'.screen = "Feed"
              /\ ~app'.should_quit
         /\ (app.screen = "Feed" /\ app.current_submolt = None) =>
              app' = [app EXCEPT !.should_quit = TRUE]]_vars

\* go_back has returned from a post to the agent profile it was opened from
C5_Witness ==
    /\ call = <<"go_back">>
    /\ app.screen = "AgentProfile"
    /\ app.current_post = None
    /\ app.collapsed_comments = {}
    /\ ~app.should_quit

\* ------------------------------------ sort and filter: method-level calls
InitSort == app = App_new /\ Idle /\ call = <<>> /\ ret = None

SetSortOrder(order) ==
    Called(<<"set_sort_order", order>>, set_sort_order(app, order))

CycleTimeFilter == Called(<<"cycle_time_filter">>, cycle_time_filter(app))

CycleTimeFilterReverse ==
    Called(<<"cycle_time_filter_reverse">>, cycle_time_filter_reverse(app))

ToggleHelp == Called(<<"toggle_help">>, toggle_help(app))

TimeFilterForApi ==
    /\ ret' = time_filter_for_api(app)
    /\ call' = <<"time_filter_for_api">>
    /\ UNCHANGED <<app, inflight, panicked, now, loop_vars>>

NextSort ==
    \/ \E order \in SortOrders : SetSortOrder(order)
    \/ CycleTimeFilter
    \/ CycleTimeFilterReverse
    \/ ToggleHelp
    \/ TimeFilterForApi

SpecSort == InitSort /\ [][NextSort]_vars

\* C10: set_sort_order(o) sets sort_order to o and turns time_filter into
\* Day when o is not New and time_filter is Hour; otherwise time_filter, like
\* everything else, is left unchanged.
C10_SetSortOrder ==
    [][\A o \in SortOrders :
         call' = <<"set_sort_order", o>> =>
           app' = [app EXCEPT
                     !.sort_order = o,
                     !.time_filter = IF o # "New" /\ app.time_filter = "Hour"
                                     THEN "Day" ELSE app.time_filter]]_vars

\* set_sort_order(Top) has acted and the filter is Day
C10_Witness ==
    /\ call = <<"set_sort_order", "Top">>
    /\ app.sort_order = "Top"
    /\ app.time_filter = "Day"

\* ------------------------------------ SubmoltsLoaded: method-level calls
\* submolts the gateway may list: featured and not, with a tie on the count
SubmoltPool ==
    {[name |-> "s1", subscriber_count |-> 10, featured |-> FALSE],
     [name |-> "s2", subscriber_count |-> 5, featured |-> TRUE],
     [name |-> "s3", subscriber_count |-> 20, featured |-> FALSE],
     [name |-> "s4", subscriber_count |-> 10, featured |-> FALSE],
     [name |-> "s5", subscriber_count |-> 7, featured |-> TRUE]}

\* the listings: distinct submolts of the pool in any order
SubmoltListings == {s \in SeqsNoDup(SubmoltPool, MaxSubmolts) : Distinct(s)}

\* the Submolts screen just after its key was pressed at start-up
InitSubmolts ==
    /\ app = render([App_new EXCEPT !.screen = "Submolts", !.is_loading = TRUE])
    /\ Idle /\ call = <<>> /\ ret = None

\* AppEvent::SubmoltsLoaded followed by the redraw
SubmoltsLoadedEvent(listing) ==
    Called(<<"SubmoltsLoaded", listing>>, render(submolts_loaded(app, listing)))

NextSubmolts ==
    \/ \E listing \in SubmoltListings : SubmoltsLoadedEvent(listing)
    \/ SelectRight
    \/ SelectLeft

SpecSubmolts == InitSubmolts /\ [][NextSubmolts]_vars

Count(x, seq) == Cardinality({i \in 1..Len(seq) : seq[i] = x})

\* C11: after SubmoltsLoaded, submolts is a permutation of the payload in
\* which every featured entry precedes every non-featured one and, within
\* either group, subscriber_count is non-increasing.
C11_SubmoltsSorted ==
    (Len(call) = 2 /\ call[1] = "SubmoltsLoaded") =>
        LET payload == call[2]
            sorted == app.submolts
        IN /\ Len(sorted) = Len(payload)
           /\ \A x \in Range(payload) \cup Range(sorted) :
                Count(x, sorted) = Count(x, payload)
           /\ \A i, j \in 1..Len(sorted) :
                i < j =>
                  /\ ~(~sorted[i].featured /\ sorted[j].featured)
                  /\ sorted[i].featured = sorted[j].featured =>
                       sorted[i].subscriber_count >= sorted[j].subscriber_count

\* [10, 5 featured, 20] has become [5 featured, 20, 10]
C11_Witness ==
    /\ call = <<"SubmoltsLoaded", KnownSubmolts>>
    /\ app.submolts = <<KnownSubmolts[2], KnownSubmolts[3], KnownSubmolts[1]>>

\* ------------------------------------------------- Tick and SpinnerTick
seconds_until_refresh(a, t) ==
    IF a.last_refresh # <<>>
    THEN LET elapsed == t - a.last_refresh[1]
         IN Max(a.refresh_interval_secs - elapsed, 0)
    ELSE a.refresh_interval_secs

\* defect seeded for C13: the refresh does not wait for a running load
tick_while_loading(a, t) ==
    LET should_refresh == /\ a.refresh_interval_secs > 0
                          /\ seconds_until_refresh(a, t) = 0
    IN IF a.screen = "Feed" /\ should_refresh
       THEN LET b == [a EXCEPT !.is_loading = TRUE,
                               !.is_background_loading = TRUE]
            IN Outcome(b, <<load_current_page(b)>>, FALSE)
       ELSE Same(a)

\* AppEvent::Tick
tick(a, t) ==
    LET should_refresh == /\ a.refresh_interval_secs > 0
                          /\ seconds_until_refresh(a, t) = 0
    IN IF a.screen = "Feed" /\ ~a.is_loading /\ should_refresh
       THEN LET b == [a EXCEPT !.is_loading = TRUE,
                               !.is_background_loading = TRUE]
            IN Outcome(b, <<load_current_page(b)>>, FALSE)
       ELSE Same(a)

\* AppEvent::SpinnerTick
spinner_tick(a) ==
    IF a.is_loading \/ a.is_preview_loading THEN advance_spinner(a) ELSE a

\* ------------------------------------------- the main loop, step by step
\* an event in the channel; the fields a kind does not carry are blank
Event(kind) == [kind |-> kind, key |-> None, posts |-> <<>>, msg |-> None]

\* the match of the main loop on the received event
dispatch(a, ev, t) ==
    CASE ev.kind = "Input" -> handle_input(a, ev.key)
      [] ev.kind = "PostsLoaded" ->
           Same(posts_loaded(a, ev.posts, Len(ev.posts) = POSTS_LIMIT, t))
      [] ev.kind = "StatsLoaded" -> Same(stats_loaded(a, "stats"))
      [] ev.kind = "Error" -> Same(error_event(a, ev.msg))
      [] ev.kind = "Tick" -> tick(a, t)
      [] ev.kind = "SpinnerTick" -> Same(spinner_tick(a))

\* App::add_debug: the entry joins the log, which keeps its last
\* DEBUG_LOG_CAP entries
DEBUG_LOG_CAP == 100

\* defect seeded for C37: a full log refuses the new entry
add_debug_keeping_oldest(entries, entry) ==
    IF entry = <<>> THEN entries
    ELSE IF Len(entries) + 1 > DEBUG_LOG_CAP THEN entries
    ELSE Append(entries, entry)

add_debug(entries, entry) ==
    IF entry = <<>> THEN entries
    ELSE IF Len(entries) + 1 > DEBUG_LOG_CAP THEN Tail(Append(entries, entry))
    ELSE Append(entries, entry)

\* what the match arm of an event writes to the debug log: the Error arm
\* its message, handle_input the key (the keys of the stepped loop write
\* nothing more), the other arms nothing
debug_entry(ev) ==
    CASE ev.kind = "Error" -> <<"ERROR", ev.msg>>
      [] ev.kind = "Input" -> <<"Key", ev.key>>
      [] OTHER -> <<>>

\* defect seeded for C12: the loop receives the newest event first
rx_recv_newest(queue) == Len(queue)

\* rx.recv(): the position in the channel of the event received next
rx_recv(queue) == 1

\* log entries: 0 for a redraw, n for the n-th event enqueued
Applied == SelectSeq(log, LAMBDA x : x # 0)

\* tx.send(ev): the event joins the back of the channel, numbered in the
\* order of sending
Send(ev) ==
    /\ pc # "done" /\ ~panicked
    /\ Len(channel) < MaxChannel
    /\ Len(Applied) + Len(channel) < MaxEvents
    /\ channel' = Append(channel,
                         [seq |-> Len(Applied) + Len(channel) + 1, ev |-> ev])

\* the input task, the tick task and the spinner task
SendFromTask(ev) ==
    /\ Send(ev)
    /\ UNCHANGED <<tasks, debug_log, app, inflight, panicked, now, call, ret, pc,
                   log, terminal>>

\* a fetch task ends: its terminal event is sent
SendFromFetch(req) ==
    /\ BagIn(req, inflight)
    /\ \/ /\ req.kind = "posts"
          /\ \E posts \in FeedPages :
                Send([Event("PostsLoaded") EXCEPT !.posts = posts])
       \/ req.kind = "stats" /\ Send(Event("StatsLoaded"))
       \/ Send([Event("Error") EXCEPT !.msg = error_text(req.kind)])
    /\ inflight' = Done(req)
    /\ UNCHANGED <<tasks, debug_log, app, panicked, now, call, ret, pc, log, terminal>>

\* terminal.draw(..)?, then the should_quit test; io_ok tells whether the
\* write to the terminal succeeded, its error is returned from main()
Draw(io_ok) ==
    /\ pc = "draw" /\ ~panicked
    /\ IF render_panics(app)
       THEN panicked' = TRUE /\ UNCHANGED <<app, pc, log>>
       ELSE IF ~io_ok
       THEN pc' = "exit_err" /\ UNCHANGED <<app, log, panicked>>
       ELSE /\ app' = render(app)
            /\ log' = Append(log, 0)
            /\ pc' = IF app.should_quit THEN "done" ELSE "recv"
            /\ UNCHANGED panicked
    /\ UNCHANGED <<tasks, debug_log, inflight, now, call, ret, channel, terminal>>

\* rx.recv().await and the match arm of the event
Recv ==
    /\ pc = "recv" /\ ~panicked /\ channel # <<>>
    /\ LET at == rx_recv(channel)
           o == dispatch(app, channel[at].ev, now)
       IN /\ BagCardinality(inflight) + Len(o.spawn) <= MaxInflight
          /\ o.app.current_page <= MaxPage
          /\ channel' = SubSeq(channel, 1, at - 1)
                        \o SubSeq(channel, at + 1, Len(channel))
          /\ log' = Append(log, channel[at].seq)
          /\ IF o.panic
             THEN panicked' = TRUE
                  /\ UNCHANGED <<app, inflight, pc, debug_log>>
             ELSE /\ app' = o.app
                  /\ inflight' = Spawn(inflight, o.spawn)
                  /\ debug_log' = add_debug(debug_log,
                                            debug_entry(channel[at].ev))
                  /\ pc' = "draw"
                  /\ UNCHANGED panicked
    /\ UNCHANGED <<now, call, ret, terminal, tasks>>

LoopKeys == {"j", "r", "q"}

InitSteps ==
    /\ app = [App_new EXCEPT !.is_loading = TRUE]
    /\ inflight = SetToBag({load_posts("New", None, 0, None), load_stats})
    /\ panicked = FALSE /\ now = 0 /\ call = <<>> /\ ret = None
    /\ channel = <<>> /\ pc = "draw" /\ log = <<>>
    /\ terminal = TerminalEntered /\ debug_log = <<>>
    /\ tasks = TasksSpawned

\* the loop while the terminal accepts every write
NextSteps ==
    \/ Draw(TRUE)
    \/ Recv
    \/ \E key \in LoopKeys : SendFromTask([Event("Input") EXCEPT !.key = key])
    \/ SendFromTask(Event("Tick"))
    \/ SendFromTask(Event("SpinnerTick"))
    \/ \E req \in BagToSet(inflight) : SendFromFetch(req)

SpecSteps == InitSteps /\ [][NextSteps]_vars

\* C12: events are applied in the order they were enqueued, one per
\* iteration, none skipped or repeated; the loop redraws exactly once
\* between two consecutive events and once after the last one applied.
C12_FifoOneRedraw ==
    /\ \A k \in 1..Len(Applied) : Applied[k] = k
    /\ \A k \in 1..Len(channel) : channel[k].seq = Len(Applied) + k
    /\ \A i \in 1..(Len(log) - 1) : (log[i] = 0) # (log[i + 1] = 0)
    /\ log # <<>> => log[1] = 0
    /\ pc \in {"recv", "done"} => log # <<>> /\ log[Len(log)] = 0
    /\ pc = "draw" => log = <<>> \/ log[Len(log)] # 0

\* three events were applied while a fourth waits, each followed by its
\* redraw
C12_Witness ==
    /\ Len(Applied) = 3
    /\ log = <<0, 1, 0, 2, 0, 3, 0>>
    /\ Len(channel) = 1
    /\ pc = "recv"

\* ------------------------------------------ auto-refresh: the ticking loop
\* auto-refresh off (--no-refresh) or on with the configured interval
InitTick == InitLoop(0) \/ InitLoop(ShortRefresh)

\* the tick task delivers AppEvent::Tick
Tick == Running /\ Apply(tick(app, now), inflight)

\* a second passes
AdvanceClock ==
    /\ Running
    /\ now < MaxClock
    /\ now' = now + 1
    /\ UNCHANGED <<app, inflight, panicked, call, ret, loop_vars>>

TickKeys == {"1", "2", "r", "Esc"}

NextTick ==
    \/ Tick
    \/ AdvanceClock
    \/ \E key \in TickKeys : Input(key)
    \/ CompleteFeed(FeedPages, {<<>>})

SpecTick == InitTick /\ [][NextTick]_vars

\* C13: Tick spawns a feed fetch iff screen = Feed, is_loading is false,
\* refresh_interval_secs > 0 and seconds_until_refresh() = 0; it then sets
\* is_loading and is_background_loading and requests the current page with
\* the current sort, time filter and submolt; otherwise it changes nothing
\* and spawns nothing.
C13_TickRefresh ==
    LET o == tick(app, now)
        due == /\ app.screen = "Feed"
               /\ ~app.is_loading
               /\ app.refresh_interval_secs > 0
               /\ seconds_until_refresh(app, now) = 0
    IN /\ (o.spawn # <<>>) <=> due
       /\ ~o.panic
       /\ due => /\ o.app = [app EXCEPT !.is_loading = TRUE,
                                        !.is_background_loading = TRUE]
                 /\ o.spawn = <<load_posts(app.sort_order,
                                           time_filter_for_api(app),
                                           app.current_page * POSTS_LIMIT,
                                           app.current_submolt)>>
       /\ ~due => o.app = app

\* a Tick found the refresh due and left its background fetch running
C13_Witness ==
    /\ app.screen = "Feed"
    /\ app.is_loading /\ app.is_background_loading
    /\ app.last_refresh # <<>>
    /\ now - app.last_refresh[1] >= app.refresh_interval_secs
    /\ \E req \in BagToSet(inflight) : req.kind = "posts"

\* ------------------------------------------- what a frame shows of loading
\* ui::render: the modal spinner overlay
modal_spinner(a) ==
    a.is_loading /\ ~a.is_background_loading /\ ~a.is_preview_loading

\* render_feed: the footer reads "Refreshing..." (the Feed screen only)
footer_refreshing(a, t) ==
    /\ a.screen = "Feed"
    /\ LET countdown == seconds_until_refresh(a, t)
           is_refreshing == a.is_loading /\ a.is_background_loading
       IN IF is_refreshing THEN TRUE
          ELSE IF a.refresh_interval_secs = 0 THEN FALSE
          ELSE countdown = 0

\* render_agent_preview_sidebar: the sidebar shows its spinner
sidebar_spinner(a) == a.show_agent_preview /\ a.is_preview_loading

\* C14: no frame shows two of the three loading indicators (modal spinner,
\* footer "Refreshing...", preview-sidebar spinner) at once.
C14_OneLoadingIndicator ==
    /\ ~(modal_spinner(app) /\ footer_refreshing(app, now))
    /\ ~(modal_spinner(app) /\ sidebar_spinner(app))
    /\ ~(footer_refreshing(app, now) /\ sidebar_spinner(app))

\* ------------------------------------------------ input under the modals
\* every key handle_input tells apart, and one it does not ("x")
Keys ==
    {"q", "?", "j", "k", "h", "l", "Space", "Tab", "Enter", "Esc", "r", "n",
     "t", "d", "R", "s", "f", "Left", "N", "P", "1", "2", "3", "4", "5", "6",
     "7", "8", "o", "+", "-", "a", "Backtick", "e", "x"}

\* handle_mouse_click up to its modal tests: a click dismisses the About
\* modal and is dropped under the other modals; clicks that get past the
\* tests reach the screen and are outside this operator
mouse_click_dropped(a) ==
    \/ a.show_about
    \/ a.show_help \/ a.show_submolt_detail \/ a.show_agent_preview
    \/ a.error_message # None

handle_mouse_click_modal(a) ==
    IF a.show_about THEN [a EXCEPT !.show_about = FALSE] ELSE a

\* C15: while error_message is set the error modal owns input: a key other
\* than Esc, e and r changes nothing and spawns nothing, Esc clears
\* error_message and show_technical_error, a mouse click changes nothing.
C15_ErrorModalOwnsInput ==
    app.error_message # None =>
        /\ \A key \in Keys \ {"Esc", "e", "r"} :
              handle_input(app, key) = Same(app)
        /\ handle_input(app, "Esc") =
              Same([app EXCEPT !.error_message = None,
                               !.show_technical_error = FALSE])
        /\ mouse_click_dropped(app) /\ handle_mouse_click_modal(app) = app

\* C16: off the PostDetail screen no comment is collapsed: every way out of
\* PostDetail clears collapsed_comments.
C16_CollapsedOnlyOnPostDetail ==
    app.screen # "PostDetail" => app.collapsed_comments = {}

\* ------------------------------------ main(): terminal setup and teardown
\* Each fallible call of main() is followed by `?`: io_ok = FALSE is the
\* failure of the call, which returns its error from main() at once.
Exits == {"exit_setup", "exit_ok", "exit_err", "exit_panic"}

\* enable_raw_mode()?
EnableRawMode(io_ok) ==
    /\ pc = "enable_raw_mode"
    /\ IF io_ok
       THEN terminal' = [terminal EXCEPT !.raw_mode = TRUE]
            /\ pc' = "enter_alternate_screen"
       ELSE pc' = "exit_setup" /\ UNCHANGED terminal
    /\ UNCHANGED <<tasks, debug_log, app, inflight, panicked, now, call, ret,
                   channel, log>>

\* execute!(stdout, EnterAlternateScreen, EnableMouseCapture)?
EnterAlternateScreen(io_ok) ==
    /\ pc = "enter_alternate_screen"
    /\ IF io_ok
       THEN terminal' = [terminal EXCEPT !.alternate_screen = TRUE,
                                         !.mouse_capture = TRUE]
            /\ pc' = "terminal_new"
       ELSE pc' = "exit_setup" /\ UNCHANGED terminal
    /\ UNCHANGED <<tasks, debug_log, app, inflight, panicked, now, call, ret,
                   channel, log>>

\* Terminal::new(backend)?, then the panic hook, App::new(), the tasks and
\* the first two loads
TerminalNew(io_ok) ==
    /\ pc = "terminal_new"
    /\ IF io_ok
       THEN /\ app' = [App_new EXCEPT !.is_loading = TRUE]
            /\ inflight' = SetToBag({load_posts("New", None, 0, None),
                                     load_stats})
            /\ tasks' = TasksSpawned
            /\ pc' = "draw"
       ELSE pc' = "exit_err" /\ UNCHANGED <<app, inflight, tasks>>
    /\ UNCHANGED <<debug_log, panicked, now, call, ret, channel, log, terminal>>

\* after the loop: shutdown_tx.send(true), the pause for the input task,
\* then input_handle.abort(), tick_handle.abort(), spinner_handle.abort()
Shutdown ==
    /\ pc = "done"
    /\ tasks' = [shutdown |-> TRUE, handles |-> {}]
    /\ pc' = "restore"
    /\ UNCHANGED <<debug_log, app, inflight, panicked, now, call, ret,
                   channel, log, terminal>>

\* disable_raw_mode()?
DisableRawMode(io_ok) ==
    /\ pc = "restore"
    /\ IF io_ok
       THEN terminal' = [terminal EXCEPT !.raw_mode = FALSE]
            /\ pc' = "leave_alternate_screen"
       ELSE pc' = "exit_err" /\ UNCHANGED terminal
    /\ UNCHANGED <<tasks, debug_log, app, inflight, panicked, now, call, ret,
                   channel, log>>

\* execute!(.., LeaveAlternateScreen, DisableMouseCapture)?
LeaveAlternateScreen(io_ok) ==
    /\ pc = "leave_alternate_screen"
    /\ IF io_ok
       THEN terminal' = [terminal EXCEPT !.alternate_screen = FALSE,
                                         !.mouse_capture = FALSE]
            /\ pc' = "show_cursor"
       ELSE pc' = "exit_err" /\ UNCHANGED terminal
    /\ UNCHANGED <<tasks, debug_log, app, inflight, panicked, now, call, ret,
                   channel, log>>

\* terminal.show_cursor()?; Ok(())
ShowCursor(io_ok) ==
    /\ pc = "show_cursor"
    /\ pc' = IF io_ok THEN "exit_ok" ELSE "exit_err"
    /\ UNCHANGED <<tasks, debug_log, app, inflight, panicked, now, call, ret,
                   channel, log,
                   terminal>>

\* the panic hook installed after the setup: it discards the results of
\* its calls, which are taken here to succeed
PanicHook ==
    /\ panicked /\ pc \notin Exits
    /\ terminal' = TerminalCooked
    /\ pc' = "exit_panic"
    /\ UNCHANGED <<tasks, debug_log, app, inflight, panicked, now, call, ret,
                   channel, log>>

ExitKeys == {"q", "Tab", "j"}

\* main() from its first line, and a run in which a reload has left the
\* Leaderboard cursor past a shortened list
InitExit ==
    /\ inflight = EmptyBag /\ panicked = FALSE /\ now = 0
    /\ call = <<>> /\ ret = None /\ channel = <<>> /\ log = <<>>
    /\ debug_log = <<>>
    /\ \/ app = App_new /\ pc = "enable_raw_mode"
          /\ terminal = TerminalCooked /\ tasks = TasksNone
       \/ /\ app = [App_new EXCEPT !.screen = "Leaderboard",
                                   !.leaderboard = SubSeq(AgentNames, 1, 1),
                                   !.leaderboard_selected = 1]
          /\ pc = "draw" /\ terminal = TerminalEntered
          /\ tasks = TasksSpawned

NextExit ==
    \/ \E io_ok \in BOOLEAN : EnableRawMode(io_ok)
    \/ \E io_ok \in BOOLEAN : EnterAlternateScreen(io_ok)
    \/ \E io_ok \in BOOLEAN : TerminalNew(io_ok)
    \/ \E io_ok \in BOOLEAN : Draw(io_ok)
    \/ Recv
    \/ \E key \in ExitKeys :
          /\ pc \in {"draw", "recv"}
          /\ SendFromTask([Event("Input") EXCEPT !.key = key])
    \/ \E req \in BagToSet(inflight) :
          pc \in {"draw", "recv"} /\ SendFromFetch(req)
    \/ Shutdown
    \/ \E io_ok \in BOOLEAN : DisableRawMode(io_ok)
    \/ \E io_ok \in BOOLEAN : LeaveAlternateScreen(io_ok)
    \/ \E io_ok \in BOOLEAN : ShowCursor(io_ok)
    \/ PanicHook

SpecExit == InitExit /\ [][NextExit]_vars

\* C17: once raw mode and the alternate screen have been entered, however
\* the program stops (quit, an error returned by a redraw or by a
\* restoration step, a panic), the terminal has been restored: raw mode
\* disabled, alternate screen left, mouse capture disabled.
C17_TerminalRestoredOnExit ==
    pc \in {"exit_ok", "exit_err", "exit_panic"} =>
        /\ ~terminal.raw_mode
        /\ ~terminal.alternate_screen
        /\ ~terminal.mouse_capture

\* ------------------------------------------------ the fetch tasks, by step
MaxTasks == 2

\* the completion event of each kind of fetch
loaded_event(kind) ==
    CASE kind = "posts" -> "PostsLoaded"
      [] kind = "post" -> "CommentsLoaded"
      [] kind = "stats" -> "StatsLoaded"
      [] kind = "leaderboard" -> "LeaderboardLoaded"
      [] kind = "top_pairings" -> "TopPairingsLoaded"
      [] kind = "recent_agents" -> "RecentAgentsLoaded"
      [] kind = "submolts" -> "SubmoltsLoaded"
      [] kind = "agent_profile" -> "AgentProfileLoaded"
      [] kind = "agent_preview" -> "AgentPreviewLoaded"

\* the load_* functions of main.rs, and the six that mouse.rs repeats
FetchKinds ==
    {"posts", "post", "stats", "leaderboard", "top_pairings",
     "recent_agents", "submolts", "agent_profile", "agent_preview"}

MouseFetchKinds ==
    {"posts", "leaderboard", "top_pairings", "recent_agents", "submolts",
     "stats"}

\* what the gateway call of a task can return: a non-empty or an empty
\* answer, or an error
GatewayResults == {"ok", "ok_empty", "err"}

\* defect seeded for C18: a failed fetch ends without any event
fetch_task_silent_on_error(kind, origin, result) ==
    LET debug == IF origin = "main" THEN <<"Debug">> ELSE <<>>
    IN debug \o <<"call">> \o
       (IF result = "err" THEN <<>>
        ELSE debug \o <<loaded_event(kind)>>)

\* the body of a fetch task as the sequence of its steps: "call" is the
\* gateway call, every other step sends the event named. The tasks of
\* main.rs send a Debug line before the call and one after a success (two
\* for a non-empty page of posts); those of mouse.rs send none.
fetch_task(kind, origin, result) ==
    LET debug == IF origin = "main" THEN <<"Debug">> ELSE <<>>
        first_author == IF kind = "posts" /\ result = "ok"
                        THEN debug ELSE <<>>
    IN debug \o <<"call">> \o
       (IF result = "err" THEN <<"Error">>
        ELSE first_author \o debug \o <<loaded_event(kind)>>)

\* a task just spawned: no step taken, the gateway not yet called
Task(kind, origin) ==
    [kind |-> kind, origin |-> origin, at |-> 0, result |-> None,
     sent |-> <<>>, calls |-> 0]

\* the steps of a task do not depend on the result before the call
steps_of(task) ==
    fetch_task(task.kind, task.origin,
               IF task.result = None THEN "err" ELSE task.result)

ended(task) == task.result # None /\ task.at = Len(steps_of(task))

\* tokio::spawn of a fetch task by a handler of the loop
SpawnFetch(kind, origin) ==
    /\ BagCardinality(inflight) < MaxTasks
    /\ inflight' = inflight (+) SetToBag({Task(kind, origin)})
    /\ UNCHANGED <<tasks, debug_log, app, panicked, now, call, ret, channel, pc,
                   log, terminal>>

\* the next step of a task: the gateway call, which settles the result, or
\* tx.send(..).await, which waits while the channel is full
TaskStep(task, result) ==
    /\ BagIn(task, inflight) /\ ~ended(task)
    /\ LET step == steps_of(task)[task.at + 1]
           after ==
               IF step = "call"
               THEN [task EXCEPT !.at = @ + 1, !.result = result,
                                 !.calls = @ + 1]
               ELSE [task EXCEPT !.at = @ + 1, !.sent = Append(@, step)]
       IN /\ IF step = "call" THEN result \in GatewayResults
                               ELSE result = task.result
          /\ step # "call" => Len(channel) < MaxChannel
          /\ channel' = IF step = "call" THEN channel
                        ELSE Append(channel, step)
          /\ inflight' = (inflight (-) SetToBag({task})) (+) SetToBag({after})
    /\ UNCHANGED <<tasks, debug_log, app, panicked, now, call, ret, pc, log, terminal>>

\* rx.recv() of the loop takes the oldest event out of the channel
TakeEvent ==
    /\ channel # <<>>
    /\ channel' = Tail(channel)
    /\ UNCHANGED <<tasks, debug_log, app, inflight, panicked, now, call, ret, pc,
                   log, terminal>>

InitFetch ==
    /\ app = App_new /\ inflight = EmptyBag /\ panicked = FALSE /\ now = 0
    /\ call = <<>> /\ ret = None /\ NoLoop

NextFetch ==
    \/ \E kind \in FetchKinds : SpawnFetch(kind, "main")
    \/ \E kind \in MouseFetchKinds : SpawnFetch(kind, "mouse")
    \/ \E task \in BagToSet(inflight) :
          \E result \in GatewayResults \cup {None} : TaskStep(task, result)
    \/ TakeEvent

SpecFetch == InitFetch /\ [][NextFetch]_vars

Terminals(task) == SelectSeq(task.sent, LAMBDA e : e # "Debug")

\* C18: a fetch task calls the gateway once and then sends exactly one
\* terminal event, the matching *Loaded after a success or Error after a
\* failure, never both and never neither; its Debug events come before it.
C18_OneTerminalEvent ==
    \A task \in BagToSet(inflight) :
        /\ task.calls <= 1
        /\ Len(Terminals(task)) <= 1
        /\ Terminals(task) # <<>> =>
              /\ task.calls = 1
              /\ task.sent[Len(task.sent)] # "Debug"
              /\ Terminals(task)[1] =
                    IF task.result = "err" THEN "Error"
                    ELSE loaded_event(task.kind)
        /\ ended(task) => task.calls = 1 /\ Len(Terminals(task)) = 1

C18_Witness ==
    /\ \E task \in BagToSet(inflight) :
          /\ ended(task) /\ task.kind = "posts" /\ task.origin = "main"
          /\ task.sent = <<"Debug", "Debug", "Debug", "PostsLoaded">>
    /\ \E task \in BagToSet(inflight) :
          /\ ended(task) /\ task.result = "err"
          /\ task.sent = <<"Debug", "Error">>

\* ------------------------------------------- ApiClient::retry_request
MAX_RETRIES == 3

\* What one run of the request closure (send, error_for_status, json) can
\* yield: the parsed answer or a reqwest::Error, given by what is_connect(),
\* is_timeout() and status() say of it. status is <<>> or <<code>>.
RequestError(kind, is_connect, is_timeout, status) ==
    [kind |-> kind, is_connect |-> is_connect, is_timeout |-> is_timeout,
     status |-> status]

RequestOk == RequestError("ok", FALSE, FALSE, <<>>)

StatusCodes == {404, 429, 500, 503}

RequestOutcomes ==
    {RequestOk,
     RequestError("connect", TRUE, FALSE, <<>>),
     RequestError("connect", TRUE, TRUE, <<>>),
     RequestError("timeout", FALSE, TRUE, <<>>),
     RequestError("decode", FALSE, FALSE, <<>>),
     RequestError("redirect", FALSE, FALSE, <<>>)}
    \cup {RequestError("status", FALSE, FALSE, <<code>>) :
             code \in StatusCodes}

\* StatusCode::is_server_error
is_server_error(code) == 500 <= code /\ code < 600

\* defect seeded for C19: every error carrying a status is retried
is_retryable_any_status(error) ==
    \/ error.is_connect \/ error.is_timeout
    \/ error.status # <<>>

is_retryable(error) ==
    IF error.is_connect \/ error.is_timeout THEN TRUE
    ELSE IF error.status # <<>> THEN is_server_error(error.status[1])
    ELSE FALSE

\* Duration::from_millis(500 * 2u64.pow(attempt))
retry_delay(attempt) == 500 * 2 ^ attempt

\* the loop variable of retry_request, kept in `call`
Attempt_ == call[2]

\* request_fn().await and the match on its result: return (ret holds the
\* Result returned, <<>> before), or go to sleep
RetryAttempt(outcome) ==
    /\ pc = "request" /\ Attempt_ < MAX_RETRIES
    /\ log' = Append(log, [step |-> "request", outcome |-> outcome, ms |-> 0])
    /\ IF outcome.kind = "ok"
       THEN pc' = "returned" /\ ret' = <<outcome>>
       ELSE IF is_retryable(outcome) /\ Attempt_ < MAX_RETRIES - 1
       THEN pc' = "sleep" /\ ret' = ret
       ELSE pc' = "returned" /\ ret' = <<outcome>>
    /\ UNCHANGED <<tasks, debug_log, app, inflight, panicked, now, call, channel,
                   terminal>>

\* tokio::time::sleep(delay).await; continue
RetrySleep ==
    /\ pc = "sleep"
    /\ log' = Append(log, [step |-> "sleep", outcome |-> RequestOk,
                           ms |-> retry_delay(Attempt_)])
    /\ now' = now + retry_delay(Attempt_)
    /\ call' = <<"retry_request", Attempt_ + 1>>
    /\ pc' = "request"
    /\ UNCHANGED <<tasks, debug_log, app, inflight, panicked, ret, channel, terminal>>

InitRetry ==
    /\ app = App_new /\ inflight = EmptyBag /\ panicked = FALSE /\ now = 0
    /\ call = <<"retry_request", 0>> /\ ret = <<>>
    /\ channel = <<>> /\ pc = "request" /\ log = <<>>
    /\ terminal = TerminalEntered /\ debug_log = <<>>
    /\ tasks = TasksSpawned

NextRetry ==
    \/ \E outcome \in RequestOutcomes : RetryAttempt(outcome)
    \/ RetrySleep

\* a request ends (the client gives up after 30 s) and a sleep ends
SpecRetry == InitRetry /\ [][NextRetry]_vars /\ WF_vars(NextRetry)

Requests == SelectSeq(log, LAMBDA x : x.step = "request")

\* a connection error, a timeout or a 5xx status
Transient(outcome) ==
    \/ outcome.kind \in {"connect", "timeout"}
    \/ outcome.kind = "status" /\ outcome.status[1] \in 500..599

RetryHistoryOk ==
    /\ Len(Requests) <= 3
    /\ \A i \in 1..Len(log) :
          IF log[i].step = "request"
          THEN IF i < Len(log) \/ pc = "sleep"
               THEN Transient(log[i].outcome) /\ i < 5
               ELSE /\ pc = "returned" /\ ret = <<log[i].outcome>>
                    /\ \/ ~Transient(log[i].outcome)
                       \/ i = 5
          ELSE /\ i \in {2, 4}
               /\ log[i].ms = (IF i = 2 THEN 500 ELSE 1000)
               /\ log[i - 1].step = "request"
    /\ now = (IF Len(log) >= 4 THEN 1500 ELSE IF Len(log) >= 2 THEN 500 ELSE 0)

\* C19: retry_request makes at most 3 attempts and ends; it tries again
\* only after a connection error, a timeout or a 5xx status, sleeping 500 ms
\* before the 2nd attempt and 1000 ms before the 3rd; a 4xx status or a
\* parse error is returned at once; a success is returned at once; the
\* error of the 3rd attempt is returned.
C19_RetryRequest == []RetryHistoryOk /\ <>(pc = "returned")

C19_Witness ==
    /\ pc = "returned" /\ Len(Requests) = 3 /\ now = 1500
    /\ ret = <<RequestError("status", FALSE, FALSE, <<503>>)>>
    /\ log[1].outcome.kind = "timeout"

\* ------------------------------------- the comment cursor of a post
\* Opening posts, moving over and collapsing their comments, and leaving by
\* the Feed key; a post has one comment or MaxComments of them.
DetailKeys == {"j", "k", "Enter", "1"}

DetailForests ==
    UNION {ForestsOf(SubSeq(CommentIds, 1, n)) : n \in {1, MaxComments}}

NextDetail ==
    \/ \E key \in DetailKeys : Input(key)
    \/ CompleteFeed({<<"A">>}, DetailForests)

SpecDetail == Init /\ [][NextDetail]_vars

\* C20: get_selected_comment_id is the id at selected_comment_index of the
\* visible list and none exactly when the index is past its end; when the
\* index is past the end of a (non-empty) visible list, one select_next or
\* one select_previous brings it back inside the list.
C20_SelectedComment ==
    app.screen = "PostDetail" =>
        LET visible == get_visible_comment_ids(app)
            index == app.selected_comment_index
        IN /\ get_selected_comment_id(app) =
                 (IF index < Len(visible) THEN visible[index + 1] ELSE None)
           /\ index >= Len(visible) /\ visible # <<>> =>
                 \/ select_next(app).selected_comment_index < Len(visible)
                 \/ select_previous(app).selected_comment_index < Len(visible)

\* ----------------------------- go_back from the screens other than a post
ListScreens == {"Leaderboard", "TopPairings", "RecentAgents"}

\* the states go_back is called in: any screen but PostDetail (Setup is the
\* screen of the set-up flow, main.rs:406), with or without a recorded
\* previous screen, a loaded agent profile and a submolt filter
BackFromStates ==
    {[App_new EXCEPT !.screen = screen, !.previous_screen = previous,
                     !.agent_profile = profile, !.agent_posts = posts,
                     !.agent_posts_selected = Max(Len(posts) - 1, 0),
                     !.current_submolt = submolt] :
        screen \in Screens \ {"PostDetail"},
        previous \in {None} \cup ListScreens,
        profile \in {None, "a1"},
        posts \in AgentPostsPayloads,
        submolt \in {None, "s1"}}

InitBackFrom ==
    /\ app \in {a \in BackFromStates :
                   /\ a.screen = "AgentProfile" => a.agent_profile # None
                   /\ a.agent_profile = None => a.agent_posts = <<>>}
    /\ Idle /\ call = <<>> /\ ret = None

NextBackFrom == GoBack

SpecBackFrom == InitBackFrom /\ [][NextBackFrom]_vars

\* C21: go_back from AgentProfile goes to the recorded previous_screen,
\* consuming it, or to Leaderboard when there is none, and clears
\* agent_profile, agent_posts and agent_posts_selected; from Setup it only
\* sets should_quit; from Stats, Leaderboard, TopPairings, RecentAgents,
\* Submolts and Settings it only sets the screen to Feed.
C21_GoBackFrom ==
    [][call' = <<"go_back">> =>
         /\ app.screen = "AgentProfile" =>
              app' = [app EXCEPT
                        !.screen = IF app.previous_screen # None
                                   THEN app.previous_screen
                                   ELSE "Leaderboard",
                        !.previous_screen = None,
                        !.agent_profile = None,
                        !.agent_posts = <<>>,
                        !.agent_posts_selected = 0]
         /\ app.screen = "Setup" => app' = [app EXCEPT !.should_quit = TRUE]
         /\ app.screen \in {"Stats", "Leaderboard", "TopPairings",
                            "RecentAgents", "Submolts", "Settings"} =>
              app' = [app EXCEPT !.screen = "Feed"]]_vars

\* go_back has left a profile for the TopPairings list it was opened from
C21_Witness ==
    /\ call = <<"go_back">>
    /\ app.screen = "TopPairings"
    /\ app.previous_screen = None
    /\ app.agent_profile = None /\ app.agent_posts = <<>>

\* ------------------------------------------------------ paging the feed
PagingKeys == {"N", "P", "j", "k"}

\* the feed request for the page the state is on, as the paging keys build
\* it: offset = current_page * POSTS_LIMIT
page_request(a) ==
    load_posts(a.sort_order, time_filter_for_api(a),
               a.current_page * POSTS_LIMIT, a.current_submolt)

\* C22: next_page acts only when has_more_posts (page + 1, cursor 0) and
\* prev_page only when current_page > 0 (page - 1, select_bottom_on_load);
\* otherwise they change nothing, so the page never goes below 0; a key
\* that pages (N, P, j at the last post, k at the first) spawns its fetch
\* with the offset of the page it has moved to.
C22_Paging ==
    /\ app.current_page >= 0
    /\ next_page(app) =
          (IF app.has_more_posts
           THEN [app EXCEPT !.current_page = @ + 1, !.selected_index = 0]
           ELSE app)
    /\ prev_page(app) =
          (IF app.current_page > 0
           THEN [app EXCEPT !.current_page = @ - 1,
                            !.select_bottom_on_load = TRUE]
           ELSE app)
    /\ prev_page(app).current_page >= 0
    /\ \A key \in PagingKeys :
          LET o == handle_input(app, key)
          IN o.app.current_page # app.current_page =>
                /\ o.spawn = <<page_request(o.app)>>
                /\ o.spawn[1].offset = o.app.current_page * POSTS_LIMIT
                /\ \/ /\ o.app.current_page = app.current_page + 1
                      /\ app.has_more_posts /\ o.app.selected_index = 0
                   \/ /\ o.app.current_page = app.current_page - 1
                      /\ app.current_page > 0 /\ o.app.select_bottom_on_load

\* the feed was paged forward and then back: the fetch of page 0 is in
\* flight and the cursor will go to the bottom when it lands
C22_Witness ==
    /\ app.screen = "Feed" /\ app.current_page = 0
    /\ app.select_bottom_on_load /\ app.is_loading
    /\ BagIn(page_request(app), inflight)
    /\ page_request(app).offset = 0

\* ------------------------------------------------ cycling the time filter
\* the declaration order of enum TimeFilter
TimeFilterOrder == <<"Hour", "Day", "Week", "Month", "Year", "All">>

PositionOf(filter) ==
    CHOOSE i \in 1..Len(TimeFilterOrder) : TimeFilterOrder[i] = filter

RECURSIVE Times(_, _, _)
Times(n, forward, a) ==
    IF n = 0 THEN a
    ELSE Times(n - 1, forward,
               IF forward THEN cycle_time_filter(a)
               ELSE cycle_time_filter_reverse(a))

CycleIsRotation ==
    /\ cycle_time_filter_reverse(cycle_time_filter(app)) = app
    /\ cycle_time_filter(cycle_time_filter_reverse(app)) = app
    /\ Times(6, TRUE, app) = app
    /\ Times(6, FALSE, app) = app

\* C23: cycle_time_filter steps Hour, Day, Week, Month, Year, All and wraps
\* to Hour; cycle_time_filter_reverse is its inverse in either order; six
\* applications of either restore the filter.
C23_CycleTimeFilter ==
    /\ []CycleIsRotation
    /\ [][/\ call' = <<"cycle_time_filter">> =>
               app' = [app EXCEPT !.time_filter =
                         TimeFilterOrder[(PositionOf(@) % 6) + 1]]
          /\ call' = <<"cycle_time_filter_reverse">> =>
               app' = [app EXCEPT !.time_filter =
                         TimeFilterOrder[((PositionOf(@) + 4) % 6) + 1]]]_vars

\* cycle_time_filter has wrapped from All to Hour
C23_Witness ==
    /\ call = <<"cycle_time_filter">>
    /\ app.time_filter = "Hour"

\* ------------------------------------ the time filter of the feed fetches
\* The Feed screen under the sort keys n, t and d and the filter keys f and
\* Left, with a feed of one post.
FilterKeys == {"n", "t", "d", "f", "Left"}

NextFilter ==
    \/ \E key \in FilterKeys : Input(key)
    \/ CompleteFeed({<<"A">>}, {<<>>})

SpecFilter == Init /\ [][NextFilter]_vars

\* the feed fetches a step has spawned
SpawnedPosts ==
    {req \in BagToSet(inflight' (-) inflight) : req.kind = "posts"}

\* a feed fetch carries None under New and the filter otherwise
FilterSent ==
    \A req \in SpawnedPosts :
        req.time = (IF app'.sort_order = "New" THEN None
                    ELSE app'.time_filter)

\* a step that ends in New leaves time_filter as it was
NewKeepsFilter ==
    app'.sort_order = "New" => app'.time_filter = app.time_filter

\* C24 as stated: every feed fetch carries None when sort_order is New and
\* Some(time_filter) otherwise; switching to New never modifies
\* time_filter, and switching back to another order reuses that filter.
C24_FilterReusedAsIs ==
    [][/\ FilterSent
       /\ NewKeepsFilter
       /\ (app.sort_order = "New" /\ app'.sort_order # "New") =>
             app'.time_filter = app.time_filter]_vars

\* C24, amended: as above, but switching back from New to another order
\* reuses the filter unless it is Hour, which becomes Day.
C24_FilterReused ==
    [][/\ FilterSent
       /\ NewKeepsFilter
       /\ (app.sort_order = "New" /\ app'.sort_order # "New") =>
             app'.time_filter = (IF app.time_filter = "Hour" THEN "Day"
                                 ELSE app.time_filter)]_vars

\* New was switched to while the filter was Hour: the filter is kept and the
\* fetch in flight carries none
C24_Witness ==
    /\ app.sort_order = "New" /\ app.time_filter = "Hour"
    /\ app.is_loading
    /\ BagIn(load_posts("New", None, 0, None), inflight)

\* ------------------------------------------------ the Error event applied
\* the event a step of the loop has received: the one whose number the step
\* has written to the log
Received ==
    LET n == log'[Len(log')]
    IN (CHOOSE e \in Range(channel) : e.seq = n).ev

ReceivesError ==
    /\ pc = "recv" /\ pc' = "draw"
    /\ Len(log') = Len(log) + 1
    /\ Received.kind = "Error"

\* C25: dispatching Error(msg) sets error_message to msg and is_loading to
\* false, appends one ERROR entry to the debug log and leaves the rest of
\* the state (collections, cursors, screen, page, sort and filter) as it
\* was; every Error received becomes the error_message of the next state.
C25_ErrorDispatch ==
    [][ReceivesError =>
          /\ app' = [app EXCEPT !.error_message = Received.msg,
                                !.is_loading = FALSE]
          /\ Received.msg # None
          /\ Len(debug_log) < DEBUG_LOG_CAP =>
                debug_log' = Append(debug_log, <<"ERROR", Received.msg>>)
          /\ debug_log'[Len(debug_log')] = <<"ERROR", Received.msg>>]_vars

\* the failure of the first feed fetch has been applied after a key
C25_Witness ==
    /\ pc = "draw" /\ app.error_message = "Failed to load posts"
    /\ ~app.is_loading /\ app.posts = <<>>
    /\ Len(debug_log) = 2
    /\ debug_log[1][1] = "Key"
    /\ debug_log[2] = <<"ERROR", "Failed to load posts">>

\* ------------------------------------------- retry from the error modal
\* The Feed and the Leaderboard under the keys r, t, Esc and 2. `call`
\* remembers the feed fetch that failed last.
RetryKeys == {"r", "t", "Esc", "2"}

\* an Error event as FetchError applies it, the failed request remembered
FailedFetch(req) ==
    /\ Running
    /\ BagIn(req, inflight)
    /\ app' = render(error_event(app, error_text(req.kind)))
    /\ inflight' = Done(req)
    /\ call' = IF req.kind = "posts" THEN <<"Error", req>> ELSE call
    /\ UNCHANGED <<panicked, now, ret, loop_vars>>

NextRetryKey ==
    \/ \E key \in RetryKeys : Input(key)
    \/ \E req \in BagToSet(inflight) :
          \/ \E posts \in {<<"A">>} : PostsLoaded(req, posts)
          \/ StatsLoaded(req)
          \/ \E list \in ListPayloads : LeaderboardLoaded(req, list)
    \/ \E req \in BagToSet(inflight) : FailedFetch(req)

SpecRetryKey == Init /\ [][NextRetryKey]_vars

\* C26: r in the error modal on the Feed screen clears error_message and
\* show_technical_error, sets is_loading and issues again the feed fetch
\* that failed last (same page, sort, time filter and submolt); on any
\* other screen it spawns nothing and leaves error_message set.
C26_RetryReissues ==
    app.error_message # None =>
        LET o == handle_input(app, "r")
        IN IF app.screen = "Feed"
           THEN /\ o.app = [app EXCEPT !.error_message = None,
                                       !.show_technical_error = FALSE,
                                       !.is_loading = TRUE]
                /\ Len(o.spawn) = 1 /\ o.spawn[1].kind = "posts"
                /\ call # <<>> => o.spawn[1] = call[2]
           ELSE o = Same(app)

\* --------------------------------------- completions applied as they come
\* C27: a *Loaded event installs its payload whatever the screen is and
\* whatever has been fetched since: PostsLoaded into posts, CommentsLoaded
\* into comments, AgentProfileLoaded and AgentPreviewLoaded into
\* agent_profile and agent_posts; the collection held is the payload of the
\* completion that arrived last.
C27_CompletionsInstalled ==
    /\ \A posts \in FeedPages :
          posts_loaded(app, posts, Len(posts) = POSTS_LIMIT, now).posts
              = posts
    /\ \A comments \in CommentsPayloads :
          comments_loaded(app, comments).comments = comments
    /\ \A agent \in Range(AgentNames), posts \in AgentPostsPayloads :
          /\ agent_profile_loaded(app, agent, posts).agent_profile = agent
          /\ agent_profile_loaded(app, agent, posts).agent_posts = posts
          /\ agent_preview_loaded(app, agent, posts).agent_profile = agent
          /\ agent_preview_loaded(app, agent, posts).agent_posts = posts

\* the comments of a post have arrived after the post was left: they are
\* held on the Feed screen, with no current post
C27_Witness ==
    /\ app.screen = "Feed" /\ app.current_post = None
    /\ app.comments # <<>>
    /\ ~app.is_loading

\* ------------------------------------------------- the loading flag
\* The Feed, a post and the Stats screen under the keys 6, r, 1, Enter and
\* Esc, with a feed of one post.
StatsKeys == {"6", "r", "1", "Enter", "Esc"}

NextStats ==
    \/ \E key \in StatsKeys : Input(key)
    \/ CompleteFeed({<<"A">>}, {<<>>})

SpecStats == Init /\ [][NextStats]_vars

\* C28: is_loading stays true only until the fetch that set it succeeds or
\* fails: once every spawned fetch has delivered its event, is_loading is
\* false; no fetch that raised the flag (the stats fetch of r or 6 on the
\* Stats screen included) completes and leaves it up.
C28_LoadingEnds ==
    inflight = EmptyBag => ~app.is_loading

\* ------------------------------------------- the way back from a detail
\* The Feed, the top pairings, an agent's profile and the posts opened from
\* the feed and from the profile, under the keys 1, 3, Enter and Esc, with a
\* feed of one post.
NavKeys == {"1", "3", "Enter", "Esc"}

\* the completions of the top pairings and of the agent profile
CompletePairings ==
    \E req \in BagToSet(inflight) :
        \/ \E list \in ListPayloads : TopPairingsLoaded(req, list)
        \/ \E posts \in AgentPostsPayloads : AgentProfileLoaded(req, posts)

NextNav ==
    \/ \E key \in NavKeys : Input(key)
    \/ CompleteFeed({<<"A">>}, {<<>>})
    \/ CompletePairings

SpecNav == Init /\ [][NextNav]_vars

\* C29: a post opened by Enter on the Feed returns to the Feed on go_back:
\* whenever Enter on the Feed opens the post detail, previous_screen is not
\* AgentProfile, whatever was visited before.
C29_FeedPostReturnsToFeed ==
    LET o == handle_input(app, "Enter")
    IN  (/\ Running
         /\ app.screen = "Feed"
         /\ BagCardinality(inflight) + Len(o.spawn) <= MaxInflight
         /\ o.app.screen = "PostDetail")
        => /\ o.app.previous_screen # "AgentProfile"
           /\ go_back(o.app).screen = "Feed"

\* C30: go_back from the agent profile lands on the list screen from which
\* the profile was opened, also after a post was opened from the profile and
\* left again with go_back.
C30_ProfileReturnsToList ==
    (/\ Running
     /\ app.screen = "AgentProfile"
     /\ app.previous_screen \in ListScreens)
    => /\ go_back(app).screen = app.previous_screen
       /\ LET o == handle_input(app, "Enter")
          IN  (/\ BagCardinality(inflight) + Len(o.spawn) <= MaxInflight
               /\ o.app.screen = "PostDetail")
              => go_back(go_back(o.app)).screen = app.previous_screen

\* ------------------------------------------------------------ mouse clicks
\* What handle_mouse_click leaves behind: the App, the fetch tasks spawned,
\* whether it panicked, and the entries it appended to the debug log.
MouseOutcome(a, spawn, panic, debug) ==
    [app |-> a, spawn |-> spawn, panic |-> panic, debug |-> debug]

get_header_height(a) ==
    CASE a.screen = "Feed" -> 13
      [] a.screen = "PostDetail" -> 3
      [] OTHER -> 11

\* get_nav_tab_at_position: the NavAction under the click, <<>> for None
get_nav_tab_at_position(x, y, current_screen) ==
    LET tabs ==
            IF y # 9 THEN <<>>
            ELSE IF x \in 1..11 THEN <<"Screen", 1>>
            ELSE IF x \in 13..30 THEN <<"Screen", 2>>
            ELSE IF x \in 32..51 THEN <<"Screen", 3>>
            ELSE IF x \in 53..66 THEN <<"Screen", 4>>
            ELSE IF x \in 68..83 THEN <<"Screen", 5>>
            ELSE IF x \in 85..97 THEN <<"Screen", 6>>
            ELSE IF x \in 99..115 THEN <<"Screen", 7>>
            ELSE IF x >= 117 THEN <<"Screen", 8>>
            ELSE <<>>
        sorts ==
            IF ~(current_screen = "Feed" /\ y = 11) THEN <<>>
            ELSE IF x \in 1..8 THEN <<"Sort", "New">>
            ELSE IF x \in 13..19 THEN <<"Sort", "Top">>
            ELSE IF x \in 24..36 THEN <<"Sort", "Discussed">>
            ELSE IF x \in 41..52 THEN <<"Sort", "Random">>
            ELSE IF x \in 56..68 THEN <<"Shuffle">>
            ELSE IF x \in 72..78 THEN <<"TimeFilter", "Hour">>
            ELSE IF x \in 82..87 THEN <<"TimeFilter", "Day">>
            ELSE IF x \in 91..97 THEN <<"TimeFilter", "Week">>
            ELSE IF x \in 101..108 THEN <<"TimeFilter", "Month">>
            ELSE IF x \in 112..118 THEN <<"TimeFilter", "Year">>
            ELSE IF x \in 122..127 THEN <<"TimeFilter", "All">>
            ELSE <<>>
    IN IF tabs # <<>> THEN tabs ELSE sorts

\* handle_screen_switch: the numbered tabs, as the keys 1 .. 8
handle_screen_switch(a, screen_num) ==
    LET o == CASE screen_num = 1 -> Same([a EXCEPT !.screen = "Feed"])
               [] screen_num = 2 ->
                    switch_screen(a, "Leaderboard", a.leaderboard = <<>>,
                                  load_leaderboard)
               [] screen_num = 3 ->
                    switch_screen(a, "TopPairings", a.top_pairings = <<>>,
                                  load_top_pairings)
               [] screen_num = 4 ->
                    switch_screen(a, "RecentAgents", a.recent_agents = <<>>,
                                  load_recent_agents)
               [] screen_num = 5 ->
                    switch_screen(a, "Submolts", a.submolts = <<>>,
                                  load_submolts)
               [] screen_num = 6 ->
                    switch_screen(a, "Stats", a.stats = None, load_stats)
               [] screen_num = 7 -> Same([a EXCEPT !.screen = "Settings"])
               [] screen_num = 8 -> Same(toggle_about(a))
               [] OTHER -> Same(a)
    IN MouseOutcome(o.app, o.spawn, FALSE,
                    IF screen_num \in 1..7
                    THEN <<<<"-> (click)", <<screen_num>>>>>> ELSE <<>>)

handle_nav_action(a, action) ==
    CASE action[1] = "Screen" -> handle_screen_switch(a, action[2])
      [] action[1] = "Sort" ->
           IF a.screen = "Feed" /\ ~a.is_loading
           THEN LET b == [set_sort_order(a, action[2])
                             EXCEPT !.current_page = 0, !.is_loading = TRUE]
                IN MouseOutcome(b, <<load_current_page(b)>>, FALSE, <<>>)
           ELSE MouseOutcome(a, <<>>, FALSE, <<>>)
      [] action[1] = "TimeFilter" ->
           IF a.screen = "Feed" /\ ~a.is_loading /\ a.sort_order # "New"
           THEN LET b == [a EXCEPT !.time_filter = action[2],
                                   !.current_page = 0, !.is_loading = TRUE]
                IN MouseOutcome(b, <<load_current_page(b)>>, FALSE, <<>>)
           ELSE MouseOutcome(a, <<>>, FALSE, <<>>)
      [] action[1] = "Shuffle" ->
           IF a.screen = "Feed" /\ ~a.is_loading
           THEN LET b == [set_sort_order(a, "Random")
                             EXCEPT !.current_page = 0, !.is_loading = TRUE]
                IN MouseOutcome(b, <<load_current_page(b)>>, FALSE, <<>>)
           ELSE MouseOutcome(a, <<>>, FALSE, <<>>)

\* u16::saturating_sub
saturating_sub(m, n) == IF m >= n THEN m - n ELSE 0

\* a click that selected item i of a list
Selected(a, what, i) ==
    MouseOutcome(a, <<>>, FALSE, <<<<what, <<i>>>>>>)

Missed(a) == MouseOutcome(a, <<>>, FALSE, <<>>)

handle_feed_click(a, y, height) ==
    IF y > 13 /\ y < saturating_sub(height, 3)
    THEN LET relative_y == y - 13 - 1
             item_height == IF a.row_display = "Comfortable" THEN 3 ELSE 2
             clicked_index == relative_y \div item_height
         IN IF clicked_index < Len(a.posts)
            THEN Selected([a EXCEPT !.selected_index = clicked_index],
                          "Selected post", clicked_index)
            ELSE Missed(a)
    ELSE Missed(a)

\* the leaderboard's items have the height of their rank; the gateway lists
\* the agents by rank, so the agent at position i has rank i + 1
RECURSIVE leaderboard_item_at(_, _, _, _)
leaderboard_item_at(relative_y, i, accumulated_height, len) ==
    IF i >= len THEN len
    ELSE LET item_height == IF i + 1 <= 3 THEN 7 ELSE 4
         IN IF relative_y >= accumulated_height
               /\ relative_y < accumulated_height + item_height
            THEN i
            ELSE leaderboard_item_at(relative_y, i + 1,
                                     accumulated_height + item_height, len)

handle_leaderboard_click(a, y, height) ==
    IF y > 11 /\ y < saturating_sub(height, 3)
    THEN LET i == leaderboard_item_at(y - 11 - 1, 0, 0, Len(a.leaderboard))
         IN IF i < Len(a.leaderboard)
            THEN Selected([a EXCEPT !.leaderboard_selected = i],
                          "Selected leaderboard agent", i)
            ELSE Missed(a)
    ELSE Missed(a)

handle_top_pairings_click(a, y, height) ==
    IF y > 11 /\ y < saturating_sub(height, 3)
    THEN LET clicked_index == (y - 11 - 1) \div 4
         IN IF clicked_index < Len(a.top_pairings)
            THEN Selected([a EXCEPT !.top_pairings_selected = clicked_index],
                          "Selected pairing", clicked_index)
            ELSE Missed(a)
    ELSE Missed(a)

handle_recent_agents_click(a, y, height) ==
    IF y > 11 /\ y < saturating_sub(height, 3)
    THEN LET item_height == IF a.row_display = "Compact" THEN 3 ELSE 4
             clicked_index == (y - 11 - 1) \div item_height
         IN IF clicked_index < Len(a.recent_agents)
            THEN Selected([a EXCEPT !.recent_selected = clicked_index],
                          "Selected recent agent", clicked_index)
            ELSE Missed(a)
    ELSE Missed(a)

\* the 4-column grid; a frame narrower than 6 columns makes col_width 0 and
\* the division panics
handle_submolts_click(a, x, y, width, height) ==
    IF y > 11 /\ y < saturating_sub(height, 3)
    THEN LET relative_y == y - 11 - 1
             row_height == CASE a.row_display = "Compact" -> 4
                             [] a.row_display = "Normal" -> 6
                             [] OTHER -> 7
             col_width == saturating_sub(width, 2) \div 4
             relative_x == saturating_sub(x, 1)
             clicked_row == relative_y \div row_height
         IN IF col_width = 0 THEN MouseOutcome(a, <<>>, TRUE, <<>>)
            ELSE LET clicked_col == Min(relative_x \div col_width, 3)
                     actual_row == a.submolts_scroll_row + clicked_row
                     clicked_index == actual_row * 4 + clicked_col
                 IN IF clicked_index < Len(a.submolts)
                    THEN Selected([a EXCEPT !.submolts_selected =
                                                clicked_index],
                                  "Selected submolt", clicked_index)
                    ELSE Missed(a)
    ELSE Missed(a)

handle_post_detail_click(a, y, height) ==
    IF y > 18 /\ y < saturating_sub(height, 3)
    THEN LET clicked_index == (y - 18 - 1) \div 3
         IN IF clicked_index < Len(get_visible_comment_ids(a))
            THEN Selected([a EXCEPT !.selected_comment_index = clicked_index],
                          "Selected comment", clicked_index)
            ELSE Missed(a)
    ELSE Missed(a)

handle_settings_click(a, y) ==
    IF y > 11
    THEN LET clicked_index == (y - 11 - 1) \div 2
         IN IF clicked_index <= 1
            THEN Selected([a EXCEPT !.settings_selected = clicked_index],
                          "Selected setting", clicked_index)
            ELSE Missed(a)
    ELSE Missed(a)

\* handle_mouse_click: area is last_frame_area, the size of the frame drawn
\* last
handle_mouse_click(a, x, y, area) ==
    LET width == area[1]
        height == area[2]
        action == get_nav_tab_at_position(x, y, a.screen)
        o == IF mouse_click_dropped(a)
             THEN Missed(handle_mouse_click_modal(a))
             ELSE IF y > 0 /\ y < get_header_height(a) /\ action # <<>>
             THEN handle_nav_action(a, action)
             ELSE CASE a.screen = "Feed" -> handle_feed_click(a, y, height)
                    [] a.screen = "Leaderboard" ->
                         handle_leaderboard_click(a, y, height)
                    [] a.screen = "TopPairings" ->
                         handle_top_pairings_click(a, y, height)
                    [] a.screen = "RecentAgents" ->
                         handle_recent_agents_click(a, y, height)
                    [] a.screen = "Submolts" ->
                         handle_submolts_click(a, x, y, width, height)
                    [] a.screen = "PostDetail" ->
                         handle_post_detail_click(a, y, height)
                    [] a.screen = "Settings" -> handle_settings_click(a, y)
                    [] OTHER -> Missed(a)
    IN [o EXCEPT !.debug = <<<<"Mouse click", <<x, y>>>>>> \o @]

\* Most debug entries written by the clicks of one run.
MaxClickLog == 2

\* AppEvent::MouseClick followed by the redraw
MouseClick(x, y, area) ==
    LET o == handle_mouse_click(app, x, y, area)
    IN  /\ Running
        /\ BagCardinality(inflight) + Len(o.spawn) <= MaxInflight
        /\ Len(debug_log) + Len(o.debug) <= MaxClickLog
        /\ IF o.panic
           THEN /\ panicked' = TRUE
                /\ UNCHANGED <<app, inflight, debug_log>>
           ELSE /\ app' = render(o.app)
                /\ inflight' = Spawn(inflight, o.spawn)
                /\ debug_log' =
                      IF Len(o.debug) = 1 THEN add_debug(debug_log, o.debug[1])
                      ELSE add_debug(add_debug(debug_log, o.debug[1]),
                                     o.debug[2])
                /\ UNCHANGED panicked
        /\ UNCHANGED <<now, call, ret, channel, pc, log, terminal, tasks>>

\* The Feed, a post, the Submolts and the About modal under the keys Enter,
\* 5 and 8 and under clicks on the About tab, on the Top sort tab and
\* in the content regions, in a frame of 80 x 24 or 130 x 40 cells.
ClickPoints ==
    {<<120, 9>>, <<15, 11>>, <<5, 14>>, <<20, 16>>, <<45, 19>>, <<45, 22>>}

FrameAreas == {<<80, 24>>, <<130, 40>>}

MouseKeys == {"Enter", "5", "8"}

\* the comments of the post opened: c1 with its reply c2
ClickForest ==
    <<[id |-> "c1", replies |-> <<[id |-> "c2", replies |-> <<>>]>>]>>

\* the completion of the submolts: the two first known submolts
CompleteSubmolts ==
    \E req \in BagToSet(inflight) :
        SubmoltsLoaded(req, SubSeq(KnownSubmolts, 1, 2))

NextMouse ==
    \/ \E p \in ClickPoints, area \in FrameAreas : MouseClick(p[1], p[2], area)
    \/ \E key \in MouseKeys : Input(key)
    \/ CompleteFeed({<<"A", "B">>}, {ClickForest})
    \/ CompleteSubmolts

SpecMouse == Init /\ [][NextMouse]_vars

\* the clicks the claims are evaluated at: the points of the specification
\* and a grid over the header's edge, the content regions and the footer
ProbePoints ==
    ClickPoints \cup
    {<<x, y>> : x \in {0, 5, 20, 45, 70},
                y \in {12, 13, 14, 15, 17, 18, 19, 20, 21, 22, 25, 36, 37}}

\* the click is in the content region below a header of the given height
InContent(y, header, height) == y > header /\ y < height - 3

\* the click's index is taken when it is within the collection, and the
\* cursor is left alone otherwise
TakenIfLive(index, len, before, after) ==
    after = IF index < len THEN index ELSE before

\* the index a content click selects on the Feed, the post detail and the
\* Submolts grid
ClickIndexOk(x, y, area, o) ==
    LET height == area[2]
    IN  /\ (app.screen = "Feed" /\ InContent(y, 13, height)) =>
              TakenIfLive((y - 13 - 1) \div
                             (IF app.row_display = "Comfortable" THEN 3 ELSE 2),
                          Len(app.posts), app.selected_index,
                          o.app.selected_index)
        /\ (app.screen = "PostDetail" /\ InContent(y, 18, height)) =>
              TakenIfLive((y - 18 - 1) \div 3,
                          Len(get_visible_comment_ids(app)),
                          app.selected_comment_index,
                          o.app.selected_comment_index)
        /\ (app.screen = "Submolts" /\ InContent(y, 11, height)) =>
              TakenIfLive((app.submolts_scroll_row + (y - 11 - 1) \div 6) * 4
                             + Min(Max(x - 1, 0) \div ((area[1] - 2) \div 4), 3),
                          Len(app.submolts), app.submolts_selected,
                          o.app.submolts_selected)

\* no cursor is moved to or past the end of its collection
ClickInBounds(o) ==
    /\ o.app.selected_index # app.selected_index =>
          o.app.selected_index < Len(o.app.posts)
    /\ o.app.leaderboard_selected # app.leaderboard_selected =>
          o.app.leaderboard_selected < Len(o.app.leaderboard)
    /\ o.app.top_pairings_selected # app.top_pairings_selected =>
          o.app.top_pairings_selected < Len(o.app.top_pairings)
    /\ o.app.recent_selected # app.recent_selected =>
          o.app.recent_selected < Len(o.app.recent_agents)
    /\ o.app.submolts_selected # app.submolts_selected =>
          o.app.submolts_selected < Len(o.app.submolts)
    /\ o.app.selected_comment_index # app.selected_comment_index =>
          o.app.selected_comment_index < Len(get_visible_comment_ids(o.app))

\* under the help, submolt-detail, agent-preview or error modal a click
\* writes the debug log and nothing else
ClickUnderModalOk(o) ==
    (\/ app.show_help \/ app.show_submolt_detail \/ app.show_agent_preview
     \/ app.error_message # None)
    => (o.app = app /\ o.spawn = <<>> /\ ~o.panic)

\* C31: a click in a content region selects the item index computed from
\* its row (and column, on the Submolts grid) only if that index is within
\* the live collection and leaves the cursor unchanged otherwise, so no
\* cursor is set to or past its collection's length; a click made while the
\* help, submolt-detail, agent-preview or error modal is open changes
\* nothing but the debug log.
C31_ClickSelectsLiveItem ==
    \A p \in ProbePoints, area \in FrameAreas :
        LET o == handle_mouse_click(app, p[1], p[2], area)
        IN  Running =>
               /\ ~mouse_click_dropped(app) =>
                     ClickIndexOk(p[1], p[2], area, o)
               /\ ClickInBounds(o)
               /\ ClickUnderModalOk(o)

\* ----------------------------------------------------- comment rendering
\* count_total_comments: a forest's comments, replies included
RECURSIVE count_total_comments(_)
count_total_comments(comments) ==
    IF comments = <<>> THEN 0
    ELSE 1 + count_total_comments(Head(comments).replies)
           + count_total_comments(Tail(comments))

\* flatten_comments: the entries pushed for a forest at a depth, one per
\* increment of visible_count. A collapsed comment with replies is a summary
\* entry carrying its hidden count, any other a comment entry; replies are
\* entered unless the comment is collapsed.
RECURSIVE flatten_comments(_, _, _, _)
flatten_comments(comments, depth, collapsed, selected_id) ==
    IF comments = <<>> THEN <<>>
    ELSE LET comment == Head(comments)
             is_selected == selected_id # None /\ selected_id = comment.id
             is_collapsed == comment.id \in collapsed
             reply_count == count_total_comments(comment.replies)
             entry ==
                 IF is_collapsed /\ reply_count > 0
                 THEN [id |-> comment.id, summary |-> TRUE,
                       total_hidden |-> count_total_comments(comment.replies) + 1,
                       depth |-> depth, is_selected |-> is_selected]
                 ELSE [id |-> comment.id, summary |-> FALSE,
                       total_hidden |-> 0,
                       depth |-> depth, is_selected |-> is_selected]
             below ==
                 IF ~is_collapsed /\ comment.replies # <<>>
                 THEN flatten_comments(comment.replies, depth + 1, collapsed,
                                       selected_id)
                 ELSE <<>>
         IN <<entry>> \o below
            \o flatten_comments(Tail(comments), depth, collapsed, selected_id)

\* defect seeded for C32: the renderer does not look at collapsed_comments
render_comments_expanded(a) ==
    flatten_comments(a.comments, 0, {}, get_selected_comment_id(a))

\* render_comments: the entries of the comment pane
render_comments(a) ==
    flatten_comments(a.comments, 0, a.collapsed_comments,
                     get_selected_comment_id(a))

RenderComments ==
    /\ ret' = render_comments(app)
    /\ call' = <<"render_comments">>
    /\ UNCHANGED <<app, inflight, panicked, now, loop_vars>>

\* The comment pane of a post under collapse toggles and cursor moves.
NextRender ==
    \/ \E comment_id \in Range(CommentIds) : ToggleCommentCollapse(comment_id)
    \/ SelectNext
    \/ SelectPrevious
    \/ RenderComments

SpecRender == InitComments /\ [][NextRender]_vars

\* a comment of the forest by id, and its descendants' ids
RECURSIVE IdsOf(_)
IdsOf(comments) ==
    IF comments = <<>> THEN {}
    ELSE {Head(comments).id} \cup IdsOf(Head(comments).replies)
         \cup IdsOf(Tail(comments))

RECURSIVE RepliesOf(_, _)
RepliesOf(comments, id) ==
    IF comments = <<>> THEN <<>>
    ELSE IF Head(comments).id = id THEN Head(comments).replies
    ELSE IF id \in IdsOf(Head(comments).replies)
    THEN RepliesOf(Head(comments).replies, id)
    ELSE RepliesOf(Tail(comments), id)

\* C32: the renderer emits one entry per visible comment in the order of
\* get_visible_comment_ids, so the entry at selected_comment_index is the one
\* marked selected; a collapsed comment with replies is one summary entry
\* counting itself and all its descendants, none of which is emitted; a
\* collapsed comment without replies is an ordinary comment entry.
C32_RendererFollowsVisibleIds ==
    call = <<"render_comments">> =>
        LET ids == get_visible_comment_ids(app)
        IN  /\ Len(ret) = Len(ids)
            /\ \A i \in 1..Len(ret) :
                  /\ ret[i].id = ids[i]
                  /\ ret[i].is_selected <=> (i = app.selected_comment_index + 1)
                  /\ LET replies == RepliesOf(app.comments, ret[i].id)
                     IN IF ret[i].id \in app.collapsed_comments
                           /\ replies # <<>>
                        THEN /\ ret[i].summary
                             /\ ret[i].total_hidden =
                                   1 + Cardinality(IdsOf(replies))
                             /\ \A j \in 1..Len(ret) :
                                   ret[j].id \notin IdsOf(replies)
                        ELSE ~ret[i].summary

\* a rendering with a summary entry, a collapsed comment without replies
\* drawn as a comment, and the cursor on the second entry
C32_Witness ==
    /\ call = <<"render_comments">>
    /\ app.selected_comment_index > 0
    /\ \E i \in 1..Len(ret) : ret[i].summary /\ ret[i].total_hidden = 2
    /\ \E i \in 1..Len(ret) :
          ~ret[i].summary /\ ret[i].id \in app.collapsed_comments

\* ------------------------------------------- collapsing under the cursor
\* C33: Enter on the post detail toggles the selected comment and keeps the
\* selection on it: selected_comment_index and the selected id are the same
\* before and after, the visible list is unchanged up to and including the
\* selected comment, and a second Enter restores collapsed_comments and the
\* visible list.
C33_ToggleKeepsSelection ==
    (/\ Running
     /\ app.screen = "PostDetail"
     /\ handle_input(app, "Enter") = handle_key(app, "Enter"))
    => LET once == handle_input(app, "Enter").app
           twice == handle_input(once, "Enter").app
           before == get_visible_comment_ids(app)
           after == get_visible_comment_ids(once)
           upto == Min(app.selected_comment_index + 1, Len(before))
       IN  /\ once.selected_comment_index = app.selected_comment_index
           /\ get_selected_comment_id(once) = get_selected_comment_id(app)
           /\ Len(after) >= upto
           /\ SubSeq(after, 1, upto) = SubSeq(before, 1, upto)
           /\ get_selected_comment_id(app) # None =>
                 once.collapsed_comments # app.collapsed_comments
           /\ twice.collapsed_comments = app.collapsed_comments
           /\ get_visible_comment_ids(twice) = before

\* the post detail after a toggle: the cursor is below the top on a
\* collapsed comment that has replies
C33_Witness ==
    /\ app.screen = "PostDetail"
    /\ app.error_message = None
    /\ app.selected_comment_index > 0
    /\ get_selected_comment_id(app) \in app.collapsed_comments
    /\ RepliesOf(app.comments, get_selected_comment_id(app)) # <<>>

\* ------------------------------------------------- new and seen posts
\* C34: new_post_ids and seen_post_ids are disjoint in every reachable
\* state: update_posts marks no seen id as new, and opening a post moves its
\* id from new_post_ids to seen_post_ids.
C34_NewAndSeenDisjoint ==
    /\ app.new_post_ids \cap app.seen_post_ids = {}
    /\ (app.screen = "Feed" /\ selected_post(app) # None) =>
          LET b == open_selected_post(app)
          IN  /\ selected_post(app) \in b.seen_post_ids
              /\ selected_post(app) \notin b.new_post_ids

\* a feed that arrived after a post was opened: an opened post is seen and
\* listed, another post is new
C34_Witness ==
    /\ app.screen = "Feed"
    /\ app.seen_post_ids \cap Range(app.posts) # {}
    /\ app.new_post_ids # {}

\* ----------------------------------------------- auxiliary loading flags
\* C35: the auxiliary loading flags do not outlive their fetch:
\* is_background_loading implies is_loading, and once no feed fetch is in
\* flight is_background_loading is false, once no preview fetch is in
\* flight is_preview_loading is false.
C35_AuxiliaryFlagsEnd ==
    /\ app.is_background_loading => app.is_loading
    /\ (\A req \in BagToSet(inflight) : req.kind # "posts") =>
          ~app.is_background_loading
    /\ (\A req \in BagToSet(inflight) : req.kind # "agent_preview") =>
          ~app.is_preview_loading

\* ------------------------------------------------------- leaving the loop
\* C36: after an event has set should_quit the loop applies no further
\* event, queued or not: it redraws once more, leaves the loop, signals
\* shutdown, aborts the input, tick and spinner tasks and then restores the
\* terminal.
C36_QuitSequence ==
    /\ app.should_quit => pc # "recv"
    /\ pc \in {"leave_alternate_screen", "show_cursor", "exit_ok"} =>
          tasks.shutdown /\ tasks.handles = {}
    /\ (app.should_quit /\ pc \in Exits) =>
          /\ pc = "exit_ok"
          /\ log # <<>> /\ log[Len(log)] = 0
          /\ tasks.shutdown /\ tasks.handles = {}
          /\ terminal = TerminalCooked

\* ------------------------------------------------------- the debug log
\* Most messages appended in one run; the n-th message carries n.
MaxAppends == 130

\* AppEvent::Debug(msg): app.add_debug(msg), for the next message
AddDebug ==
    LET n == IF call = <<>> THEN 1 ELSE call[2] + 1
    IN  /\ n <= MaxAppends
        /\ debug_log' = add_debug(debug_log, <<"Debug", <<n>>>>)
        /\ call' = <<"add_debug", n>>
        /\ UNCHANGED <<app, inflight, panicked, now, ret, channel, pc, log,
                       terminal, tasks>>

InitDebug == app = App_new /\ Idle /\ call = <<>> /\ ret = None

NextDebug == AddDebug

SpecDebug == InitDebug /\ [][NextDebug]_vars

\* C37: the debug log holds at most 100 entries, the most recently appended
\* ones in the order of appending: appending to a full log drops exactly the
\* oldest entry.
C37_DebugLogKeepsLatest ==
    /\ Len(debug_log) <= 100
    /\ call # <<>> =>
          LET n == call[2]
              kept == IF n < 100 THEN n ELSE 100
          IN  /\ Len(debug_log) = kept
              /\ \A i \in 1..kept :
                    debug_log[i] = <<"Debug", <<n - kept + i>>>>

\* the log after more than a hundred messages
C37_Witness ==
    /\ call # <<>> /\ call[2] = 103
    /\ Len(debug_log) = 100
    /\ debug_log[1] = <<"Debug", <<4>>>>

\* ------------------------------------------ the feed and the query shown
\* The Feed and the Submolts grid under the paging keys, Enter and Esc.
\* `call` remembers the request whose response filled `posts` last.
QueryKeys == {"N", "P", "5", "Enter", "Esc"}

\* a PostsLoaded event as PostsLoaded applies it, the answered request
\* remembered
FeedResponse(req, posts) ==
    /\ Running
    /\ req.kind = "posts" /\ BagIn(req, inflight)
    /\ app' = render(posts_loaded(app, posts, Len(posts) = POSTS_LIMIT, now))
    /\ inflight' = Done(req)
    /\ call' = <<"PostsLoaded", req>>
    /\ UNCHANGED <<panicked, now, ret, loop_vars>>

NextQuery ==
    \/ \E key \in QueryKeys : Input(key)
    \/ \E req \in BagToSet(inflight) : FeedResponse(req, <<"A", "B">>)
    \/ \E req \in BagToSet(inflight) : StatsLoaded(req)
    \/ CompleteSubmolts
    \/ \E req \in BagToSet(inflight) : FetchError(req)

SpecQuery == Init /\ [][NextQuery]_vars

NoFeedFetch == \A req \in BagToSet(inflight) : req.kind # "posts"

\* C38: whenever no feed fetch is outstanding, the posts held came from a
\* response to the request that the sort order, time filter, page and
\* submolt filter of the state describe.
C38_FeedMatchesQuery ==
    (NoFeedFetch /\ call # <<>>) => call[2] = load_current_page(app)

\* C39: select_bottom_on_load is raised only while the feed fetch that a
\* prev_page call triggered is outstanding: once no feed fetch is in
\* flight, whether it succeeded, failed or came back empty, the flag is
\* down.
C39_BottomFlagEndsWithFetch == NoFeedFetch => ~app.select_bottom_on_load

\* ------------------------------------------------ auto-refresh comes due
\* the time the running interval started: the last successful feed load,
\* or start-up while none has succeeded
interval_start(a) == IF a.last_refresh # <<>> THEN a.last_refresh[1] ELSE 0

\* C40: with auto-refresh on, the Feed active and no load running, a Tick
\* that arrives a full interval after the last feed load, or after start-up
\* when no load has succeeded yet, spawns the background refresh; so with
\* Ticks arriving and the clock advancing a refresh is eventually spawned.
C40_TickRefreshesWhenDue ==
    ( /\ app.refresh_interval_secs > 0
      /\ app.screen = "Feed" /\ ~app.is_loading
      /\ now >= interval_start(app) + app.refresh_interval_secs )
    => tick(app, now).spawn = <<load_current_page(app)>>

====
